---- MODULE Spec2Model ----
(***************************************************************************)
(* A model of the receiver driver of stream-deck-denon-receiver:           *)
(*   - AVRConnection (src/src/modules/connection.js): the telnet session   *)
(*     to one receiver, its reconnect logic, its command methods and the   *)
(*     decoding of status lines;                                           *)
(*   - AVRTracker (src/src/modules/tracker.js): the SSDP discovery with    *)
(*     its single-flight active scan.                                      *)
(*                                                                         *)
(* One action of the model is one turn of Node's event loop: a public      *)
(* method called by the owner of the object, an event of a socket, or a    *)
(* timer that fires.  A turn runs to completion before the next starts.    *)
(*                                                                         *)
(* Wire text is a sequence of one-character strings, so that the decoder   *)
(* can be modelled with the substring operations the code uses.  Volumes   *)
(* are held in tenths of a step (35.5 is 355), the finest step the         *)
(* protocol reports.                                                       *)
(***************************************************************************)
EXTENDS Integers, Sequences, FiniteSets, TLC

VARIABLES
    \* ---- AVRConnection ----
    sock,            \* every socket connect() has made: its state in Node
    telnet,          \* this.#telnet / this.#rawSocket: a socket id, or Undefined
    reconnectCount,  \* this.#reconnectCount
    timers,          \* reconnect timers (setTimeout(1000) of #onClose) still pending
    statusMsg,       \* this.status.statusMsg
    zones,           \* this.status.zones
    emitted,         \* the events emitted by the last turn, in order
    wrote,           \* the texts handed to telnet.write() by the last turn, in order
    call,            \* the last command method called, with what it returned
    turn,            \* the last turn of the connection, with what it found
    lastError,       \* the code of the last socket error handled by #onError
    callerClosed,    \* the owner has called disconnect() and not connect() since
    hostNotFound,    \* #onError has seen ENOTFOUND and connect() was not called since
    reported,        \* which zone fields the receiver has reported so far
    listenerIds,     \* this.#listenerIds
    listeners,       \* how many times each listener is attached to this.#eventEmitter
    \* ---- AVRTracker ----
    isScanning,      \* the module's isScanning flag
    listenPc,        \* where AVRTracker.listen() stands
    receiverList,    \* the identities in the module's receiverList
    pc,              \* where each caller of searchForReceivers stands
    rounds,          \* each caller's count argument
    args,            \* the arguments each caller passed: count and maxWait, or undefined
    round,           \* each scanning caller's loop variable i
    result,          \* what searchForReceivers returned to each caller
    joined,          \* the scan each caller started or waited for, and which of the two
    sent,            \* the rounds of queries each caller's own call has sent
    scanNo,          \* the scans started so far
    sends,           \* the rounds of multicast queries sent so far
    owed,            \* the rounds asked for by all scans started so far
    calls,           \* the calls of searchForReceivers made so far
    tturn,           \* the last turn of the tracker, with what it found
    receivers,       \* the entries of receiverList, by identity
    clock,           \* Date.now()
    immediates,      \* the setImmediate callbacks of onResponse still pending
    fetching,        \* the name fetches in flight, oldest first
    persistTimers,   \* the timers of updatePersistentCache still pending
    saving,          \* the getGlobalSettings() calls of that timer still pending
    saved,           \* the receiverList last handed to setGlobalSettings()
    \* ---- AVRTracker of ssdp.js (node-ssdp) ----
    cacheDict,       \* cacheDict: the entry of each identity cached
    cacheTimers,     \* the expiry timers pending for each identity: when each is due
    ssdpNow,         \* the time, in ms
    ssdpImmediates,  \* the setImmediate callbacks of onResponse still pending
    seenAt,          \* when each identity was last sighted
    sturn            \* the last turn of this tracker, with what it found

subscriptionVars == <<listenerIds, listeners>>
connVars == <<sock, telnet, reconnectCount, timers, statusMsg, zones, emitted,
              wrote, call, turn, lastError, callerClosed, hostNotFound, reported,
              subscriptionVars>>
cacheVars == <<receivers, clock, immediates, fetching, persistTimers, saving, saved>>
trackerVars == <<isScanning, listenPc, receiverList, pc, rounds, args, round, result,
                 joined, sent, scanNo, sends, owed, calls, tturn, cacheVars>>
ssdpVars == <<cacheDict, cacheTimers, ssdpNow, ssdpImmediates, seenAt, sturn>>
vars == <<connVars, trackerVars, ssdpVars>>

-----------------------------------------------------------------------------
(* Bounds of the model.                                                     *)

\* Sockets and pending reconnect timers of one connection at a time.
MaxLive == 2

\* Callers of searchForReceivers, the rounds one call may ask for, the calls
\* made in one run, and the receivers that answer on the network.
NumCallers == 2
MaxRounds == 2
MaxCalls == 3
NumReceivers == 2

\* The name fetches in flight at a time.
MaxFetches == 1

\* The ticks of the clock, and the settings reads of the persist timer in
\* flight at a time.
MaxClock == 1
MaxSaving == 1

\* The times one listener is attached to the event emitter of a connection.
MaxAttached == 2

\* The steps of the clock of the node-ssdp tracker: how many make the cache
\* time, and how many the clock takes.
StepsPerCacheTime == 3
MaxSteps == 5

\* connection.js:449, the cap on consecutive reconnects
ReconnectLimit == 10

Undefined == 0
SockIds == 1..MaxLive

-----------------------------------------------------------------------------
(* Text.                                                                    *)

Digit == <<"0", "1", "2", "3", "4", "5", "6", "7", "8", "9">>
CR == <<"\r">>

\* A value that is undefined where the code expects a string.
UndefinedText == <<"undefined">>

\* NaN, among the numbers of the model.
NaN == -1000000

IsDigit(ch) == \E d \in 1..10 : Digit[d] = ch
DigitValue(ch) == (CHOOSE d \in 1..10 : Digit[d] = ch) - 1

\* String.prototype.startsWith, substring, padStart(2, "0")
startsWith(str, prefix) ==
    Len(str) >= Len(prefix) /\ SubSeq(str, 1, Len(prefix)) = prefix
substring(str, start) == SubSeq(str, start + 1, Len(str))
substring2(str, start, end) ==
    SubSeq(str, start + 1, IF end < Len(str) THEN end ELSE Len(str))
padStart2(str) == IF Len(str) = 0 THEN <<"0", "0">>
                  ELSE IF Len(str) = 1 THEN <<"0">> \o str ELSE str

\* String.prototype.split(separator)
RECURSIVE split(_, _)
split(str, sep) ==
    IF \E i \in 1..Len(str) : str[i] = sep
    THEN LET i == CHOOSE i \in 1..Len(str) :
                      str[i] = sep /\ \A j \in 1..(i - 1) : str[j] # sep
         IN  <<SubSeq(str, 1, i - 1)>> \o split(SubSeq(str, i + 1, Len(str)), sep)
    ELSE <<str>>

\* Where String.prototype.split(separator) cuts: the occurrences of the
\* separator from the left, none overlapping an earlier one (indices from 0).
splitPoints(str, sep) ==
    LET found == {i \in 0..(Len(str) - Len(sep)) :
                     \A k \in 1..Len(sep) : str[i + k] = sep[k]}
        taken[i \in 0..Len(str)] ==
            /\ i \in found
            /\ \A j \in found : (j < i /\ i < j + Len(sep)) => ~taken[j]
    IN  {i \in found : taken[i]}

\* String.prototype.split(separator), the separator a text of some length
splitText(str, sep) ==
    LET points == splitPoints(str, sep)
        n == Cardinality(points)
        point(k) == CHOOSE i \in points : Cardinality({j \in points : j < i}) = k - 1
    IN  [k \in 1..(n + 1) |->
            SubSeq(str, IF k = 1 THEN 1 ELSE point(k - 1) + Len(sep) + 1,
                        IF k = n + 1 THEN Len(str) ELSE point(k))]

\* A variant of Falsy that takes the empty text for a value.
FalsyUndefinedOnly(value) == value = UndefinedText

\* !value, of a text or undefined
Falsy(value) == value = UndefinedText \/ value = <<>>

\* parseInt(str): white space, a sign, then the digits up to the first
\* character that is none; NaN when there is no digit.
RECURSIVE skipSpaces(_)
skipSpaces(str) ==
    IF Len(str) > 0 /\ Head(str) = " " THEN skipSpaces(Tail(str)) ELSE str

RECURSIVE digitsValue(_, _)
digitsValue(str, acc) ==
    IF Len(str) > 0 /\ IsDigit(Head(str))
    THEN digitsValue(Tail(str), acc * 10 + DigitValue(Head(str)))
    ELSE acc

parseInt(str) ==
    LET s1 == skipSpaces(str)
        neg == Len(s1) > 0 /\ Head(s1) = "-"
        s2 == IF Len(s1) > 0 /\ Head(s1) \in {"-", "+"} THEN Tail(s1) ELSE s1
    IN  IF Len(s2) > 0 /\ IsDigit(Head(s2))
        THEN (IF neg THEN -1 ELSE 1) * digitsValue(s2, 0)
        ELSE NaN

\* Number.prototype.toString of a number held in tenths: 45 is "45", 35.5 is
\* "35.5", NaN is "NaN".
RECURSIVE natToString(_)
natToString(n) ==
    IF n < 10 THEN <<Digit[n + 1]>> ELSE natToString(n \div 10) \o <<Digit[(n % 10) + 1]>>

toString(tenths) ==
    IF tenths = NaN THEN <<"N", "a", "N">>
    ELSE LET abs == IF tenths < 0 THEN -tenths ELSE tenths
             sign == IF tenths < 0 THEN <<"-">> ELSE <<>>
         IN  sign \o natToString(abs \div 10)
                  \o (IF abs % 10 = 0 THEN <<>> ELSE <<".", Digit[(abs % 10) + 1]>>)

\* Math.round, Math.min, Math.max and + on numbers held in tenths.
MathRound(x) == IF x = NaN THEN NaN ELSE ((x + 5) \div 10) * 10
MathMin(a, b) == IF a = NaN \/ b = NaN THEN NaN ELSE IF a < b THEN a ELSE b
MathMax(a, b) == IF a = NaN \/ b = NaN THEN NaN ELSE IF a > b THEN a ELSE b
Plus(a, b) == IF a = NaN \/ b = NaN THEN NaN ELSE a + b

\* const sources = {...}: the keys
sources ==
    {<<"P", "H", "O", "N", "O">>,
     <<"C", "D">>,
     <<"T", "U", "N", "E", "R">>,
     <<"D", "V", "D">>,
     <<"B", "D">>,
     <<"T", "V">>,
     <<"S", "A", "T", "/", "C", "B", "L">>,
     <<"M", "P", "L", "A", "Y">>,
     <<"G", "A", "M", "E">>,
     <<"H", "D", "R", "A", "D", "I", "O">>,
     <<"N", "E", "T">>,
     <<"P", "A", "N", "D", "O", "R", "A">>,
     <<"S", "I", "R", "I", "U", "S", "X", "M">>,
     <<"S", "P", "O", "T", "I", "F", "Y">>,
     <<"L", "A", "S", "T", "F", "M">>,
     <<"F", "L", "I", "C", "K", "R">>,
     <<"I", "R", "A", "D", "I", "O">>,
     <<"S", "E", "R", "V", "E", "R">>,
     <<"F", "A", "V", "O", "R", "I", "T", "E", "S">>,
     <<"A", "U", "X">>,
     <<"A", "U", "X", "1">>,
     <<"A", "U", "X", "2">>,
     <<"A", "U", "X", "3">>,
     <<"A", "U", "X", "4">>,
     <<"A", "U", "X", "5">>,
     <<"A", "U", "X", "6">>,
     <<"A", "U", "X", "7">>,
     <<"B", "T">>,
     <<"U", "S", "B", "/", "I", "P", "O", "D">>,
     <<"U", "S", "B">>,
     <<"I", "P", "D">>,
     <<"I", "R", "P">>,
     <<"F", "V", "P">>,
     <<"O", "N">>,
     <<"O", "F", "F">>}

\* The names every object inherits from Object.prototype.
ObjectPrototypeKeys ==
    {<<"c", "o", "n", "s", "t", "r", "u", "c", "t", "o", "r">>,
     <<"t", "o", "S", "t", "r", "i", "n", "g">>,
     <<"v", "a", "l", "u", "e", "O", "f">>,
     <<"h", "a", "s", "O", "w", "n", "P", "r", "o", "p", "e", "r", "t", "y">>,
     <<"i", "s", "P", "r", "o", "t", "o", "t", "y", "p", "e", "O", "f">>,
     <<"p", "r", "o", "p", "e", "r", "t", "y", "I", "s", "E", "n", "u", "m", "e", "r", "a", "b", "l", "e">>,
     <<"t", "o", "L", "o", "c", "a", "l", "e", "S", "t", "r", "i", "n", "g">>,
     <<"_", "_", "p", "r", "o", "t", "o", "_", "_">>}

\* line in sources: the own keys and the inherited ones
inSources(line) == line \in sources \/ line \in ObjectPrototypeKeys

-----------------------------------------------------------------------------
(* The state of the connection after its constructor.                       *)

NoCall == [op |-> "none", zone |-> 0, value |-> "none", text |-> <<>>, delta |-> 0,
           ret |-> FALSE, sockState |-> "none", known |-> FALSE, power |-> FALSE,
           muted |-> FALSE, volume |-> 0, maxVolume |-> 0, target |-> 0]

\* status = { zones: [...], statusMsg: "Initializing..." }
InitialZone(z) ==
    [power |-> FALSE, volume |-> 0, maxVolume |-> 850, muted |-> FALSE,
     dynamicVolume |-> IF z = 0 THEN <<"O", "F", "F">> ELSE <<"undefined">>,
     source |-> <<>>]
InitialZones == [z \in 0..1 |-> InitialZone(z)]

NoTurn == [kind |-> "constructor", sock |-> 1, count |-> 0, timers |-> 0,
           telnet |-> Undefined, state |-> "none", code |-> "none", threw |-> FALSE,
           data |-> <<>>, before |-> InitialZones]

MsgInitializing == <<"Initializing...">>
MsgConnected == <<"Connected.">>
MsgHostNotFound == <<"Host not found">>
MsgConnectionError(code) == <<"Connection error", code>>

ErrorCodes == {"ECONNREFUSED", "ETIMEDOUT", "ENOTFOUND"}

\* Who subscribes to a connection: the listener functions, each with the id
\* it is bound under.
Subscribers == {[id |-> <<"v", "o", "l">>, name |-> <<"f">>], [id |-> <<"p", "o", "w">>, name |-> <<"g">>]}

\* `${id}-${listener.name}`
ListenerId(id, name) == id \o <<"-">> \o name

\* The sockets that can still emit an event.
Live == {s \in SockIds : sock[s] \in {"connecting", "open", "errored", "destroyed"}}
\* The sockets that are connecting or open.
Usable == {s \in SockIds : sock[s] \in {"connecting", "open"}}
\* rawSocket.destroyed
Destroyed(s) == sock[s] \in {"errored", "destroyed", "closed"}

ConnInit ==
    /\ sock = [s \in SockIds |-> IF s = 1 THEN "connecting" ELSE "none"]
    /\ telnet = 1
    /\ reconnectCount = 0
    /\ timers = 0
    /\ statusMsg = MsgInitializing
    /\ zones = InitialZones
    /\ emitted = <<>>
    /\ wrote = <<>>
    /\ call = NoCall
    /\ turn = NoTurn
    /\ lastError = "none"
    /\ callerClosed = FALSE
    /\ hostNotFound = FALSE
    /\ reported = [z \in 0..1 |-> [power |-> FALSE, muted |-> FALSE, volume |-> FALSE]]
    /\ listenerIds = {}
    /\ listeners = [l \in Subscribers |-> 0]

-----------------------------------------------------------------------------
(* connect() and disconnect().                                              *)

\* A closed socket is forgotten once this.#telnet stops naming it.
Forget(socks, s) ==
    IF s # Undefined /\ socks[s] = "closed" THEN [socks EXCEPT ![s] = "none"] ELSE socks

FreeId(socks) == CHOOSE s \in SockIds : socks[s] = "none" /\ \A t \in SockIds : socks[t] = "none" => s <= t

\* connect(): a new socket to host:23, which becomes this.#telnet.  The
\* socket this.#telnet named before is neither destroyed nor looked at.
ConnectSockets ==
    LET freed == Forget(sock, telnet)
    IN  [freed EXCEPT ![FreeId(freed)] = "connecting"]

ConnectTelnet == FreeId(Forget(sock, telnet))

\* disconnect(): forget the socket; destroy it unless it is destroyed already.
\* No timer is cleared: the reconnect timers are promises of timers/promises
\* made without an AbortSignal.
DisconnectSockets ==
    IF telnet # Undefined /\ ~Destroyed(telnet)
    THEN [sock EXCEPT ![telnet] = "destroyed"]
    ELSE Forget(sock, telnet)

Quiet == /\ emitted' = <<>>
         /\ wrote' = <<>>
         /\ call' = NoCall

\* The owner of the connection calls connect().
Connect ==
    /\ Cardinality(Live) + timers < MaxLive
    /\ sock' = ConnectSockets
    /\ telnet' = ConnectTelnet
    /\ callerClosed' = FALSE
    /\ hostNotFound' = FALSE
    /\ turn' = [NoTurn EXCEPT !.kind = "connect", !.sock = ConnectTelnet,
                !.count = reconnectCount, !.timers = timers, !.telnet = telnet]
    /\ Quiet
    /\ UNCHANGED <<reconnectCount, timers, statusMsg, zones, lastError, reported>>
    /\ UNCHANGED subscriptionVars
    /\ UNCHANGED trackerVars
    /\ UNCHANGED ssdpVars

\* The owner of the connection calls disconnect().  this.#listenerIds = []:
\* the listeners stay attached to this.#eventEmitter.
Disconnect ==
    /\ listenerIds' = {}
    /\ UNCHANGED listeners
    /\ sock' = DisconnectSockets
    /\ telnet' = Undefined
    /\ callerClosed' = TRUE
    /\ turn' = [NoTurn EXCEPT !.kind = "disconnect", !.sock = telnet,
                !.count = reconnectCount, !.timers = timers, !.telnet = telnet]
    /\ Quiet
    /\ UNCHANGED <<reconnectCount, timers, statusMsg, zones, lastError, hostNotFound, reported>>
    /\ UNCHANGED trackerVars
    /\ UNCHANGED ssdpVars

\* on(listener, id): the listener is attached unless its id is in
\* this.#listenerIds.
On(listener) ==
    /\ LET listenerId == ListenerId(listener.id, listener.name)
       IN  IF listenerId \in listenerIds
           THEN UNCHANGED <<listenerIds, listeners>>
           ELSE /\ listeners[listener] < MaxAttached
                /\ listenerIds' = listenerIds \cup {listenerId}
                /\ listeners' = [listeners EXCEPT ![listener] = @ + 1]
    /\ turn' = [NoTurn EXCEPT !.kind = "on", !.count = reconnectCount,
                !.timers = timers, !.telnet = telnet]
    /\ Quiet
    /\ UNCHANGED <<sock, telnet, reconnectCount, timers, statusMsg, zones, lastError,
                   callerClosed, hostNotFound, reported>>
    /\ UNCHANGED trackerVars
    /\ UNCHANGED ssdpVars

-----------------------------------------------------------------------------
(* The events of a socket, and the reconnect timer.                         *)

\* #requestFullReceiverStatus(): one query per tracked field and zone,
\* written to this.#telnet if there is one.
StatusQueries ==
    << <<"P","W","?","\r">>, <<"M","V","?","\r">>, <<"M","U","?","\r">>,
       <<"P","S","D","Y","N","V","O","L"," ","?","\r">>,
       <<"Z","2","P","W","?","\r">>, <<"Z","2","M","V","?","\r">>,
       <<"Z","2","M","U","?","\r">> >>

requestFullReceiverStatus == IF telnet = Undefined THEN <<>> ELSE StatusQueries

\* (a variant of OnConnectCount that forgets to reset the count)
OnConnectCountKept == reconnectCount

\* #onConnect(): the 'connect' event of socket s.
OnConnectCount == 0

OnConnect(s) ==
    /\ sock[s] = "connecting"
    /\ sock' = [sock EXCEPT ![s] = "open"]
    /\ reconnectCount' = OnConnectCount
    /\ statusMsg' = MsgConnected
    /\ emitted' = << <<"connected", 0>> >>
    /\ wrote' = requestFullReceiverStatus
    /\ call' = NoCall
    /\ turn' = [NoTurn EXCEPT !.kind = "onConnect", !.sock = s, !.count = reconnectCount,
                !.timers = timers, !.telnet = telnet, !.state = sock[s]]
    /\ UNCHANGED <<telnet, timers, zones, lastError, callerClosed, hostNotFound, reported>>
    /\ UNCHANGED subscriptionVars
    /\ UNCHANGED trackerVars
    /\ UNCHANGED ssdpVars

\* #onError(error): the 'error' event of socket s.  Node has destroyed the
\* socket before it emits the event; its 'close' event follows in a later turn.
\* A name lookup can fail only while the socket is connecting.
OnErrorMsg(code) ==
    IF code = "ENOTFOUND" THEN MsgHostNotFound ELSE MsgConnectionError(code)

OnError(s, code) ==
    /\ sock[s] \in {"connecting", "open"}
    /\ code = "ENOTFOUND" => sock[s] = "connecting"
    /\ statusMsg' = OnErrorMsg(code)
    /\ LET errored == [sock EXCEPT ![s] = "errored"]
       IN  IF code = "ENOTFOUND"
           THEN \* this.disconnect()
                /\ sock' = IF telnet # Undefined /\ telnet # s /\ ~Destroyed(telnet)
                           THEN [errored EXCEPT ![telnet] = "destroyed"]
                           ELSE Forget(errored, telnet)
                /\ telnet' = Undefined
                /\ hostNotFound' = TRUE
                /\ listenerIds' = {}
           ELSE /\ sock' = errored
                /\ UNCHANGED <<telnet, hostNotFound, listenerIds>>
    /\ lastError' = code
    /\ emitted' = << <<"status", 0>> >>
    /\ wrote' = <<>>
    /\ call' = NoCall
    /\ turn' = [NoTurn EXCEPT !.kind = "onError", !.sock = s, !.count = reconnectCount,
                !.timers = timers, !.telnet = telnet, !.state = sock[s], !.code = code]
    /\ UNCHANGED <<reconnectCount, timers, zones, callerClosed, reported, listeners>>
    /\ UNCHANGED trackerVars
    /\ UNCHANGED ssdpVars

\* #onClose(hadError): the 'close' event of socket s: the peer closed an open
\* socket, or the socket was destroyed by an error or by disconnect().
WillReconnect == telnet # Undefined /\ reconnectCount < ReconnectLimit

OnClose(s) ==
    /\ sock[s] \in {"open", "errored", "destroyed"}
    /\ sock' = [sock EXCEPT ![s] = IF telnet = s THEN "closed" ELSE "none"]
    /\ IF WillReconnect
       THEN /\ reconnectCount' = reconnectCount + 1
            /\ timers' = timers + 1
       ELSE UNCHANGED <<reconnectCount, timers>>
    /\ emitted' = << <<"closed", 0>> >>
    /\ wrote' = <<>>
    /\ call' = NoCall
    /\ turn' = [NoTurn EXCEPT !.kind = "onClose", !.sock = s, !.count = reconnectCount,
                !.timers = timers, !.telnet = telnet, !.state = sock[s]]
    /\ UNCHANGED <<telnet, statusMsg, zones, lastError, callerClosed, hostNotFound, reported>>
    /\ UNCHANGED subscriptionVars
    /\ UNCHANGED trackerVars
    /\ UNCHANGED ssdpVars

\* The timer of #onClose fires: connect().
ReconnectTimer ==
    /\ timers > 0
    /\ timers' = timers - 1
    /\ sock' = ConnectSockets
    /\ telnet' = ConnectTelnet
    /\ turn' = [NoTurn EXCEPT !.kind = "timer", !.sock = ConnectTelnet,
                !.count = reconnectCount, !.timers = timers, !.telnet = telnet]
    /\ Quiet
    /\ UNCHANGED <<reconnectCount, statusMsg, zones, lastError, callerClosed,
                   hostNotFound, reported>>
    /\ UNCHANGED subscriptionVars
    /\ UNCHANGED trackerVars
    /\ UNCHANGED ssdpVars

-----------------------------------------------------------------------------
(* #onData and the handlers of the status lines.                            *)

\* What a turn of #onData has done so far.
Decoding == [zones |-> zones, emitted |-> <<>>, reported |-> reported, threw |-> FALSE]

\* (a variant of emit that gives every event the main zone)
emitMainZone(st, type, zone) == [st EXCEPT !.emitted = Append(@, <<type, 0>>)]

\* this.emit(type, zone)
emit(st, type, zone) == [st EXCEPT !.emitted = Append(@, <<type, zone>>)]

\* (a variant of onPowerChanged that emits for every power line)
onPowerChangedAlways(st, parameter, zone) ==
    emit([st EXCEPT !.zones[zone].power = (parameter = <<"O", "N">>),
                    !.reported[zone].power = TRUE],
         "powerChanged", zone)

\* #onPowerChanged(parameter, zone)
onPowerChanged(st, parameter, zone) ==
    LET newStatus == parameter = <<"O", "N">>
        seen == [st EXCEPT !.reported[zone].power = TRUE]
    IN  IF newStatus = st.zones[zone].power
        THEN seen
        ELSE emit([seen EXCEPT !.zones[zone].power = newStatus], "powerChanged", zone)

\* (a variant of volumeNumber without the rule of the three characters)
volumeNumberWhole(valueStr) ==
    LET n == parseInt(valueStr)
    IN  IF n = NaN THEN NaN ELSE n * 10

\* The number of a volume line: a text of three characters is in tenths.
volumeNumber(valueStr) ==
    LET n == parseInt(valueStr)
    IN  IF n = NaN THEN NaN ELSE IF Len(valueStr) = 3 THEN n ELSE n * 10

\* (a variant of onVolumeChanged that does not know the MAX sub-form)
onVolumeChangedNoMax(st, parameter, zone) ==
    IF parameter = UndefinedText
    THEN [st EXCEPT !.threw = TRUE]
    ELSE emit([st EXCEPT !.zones[zone].volume = volumeNumber(parameter),
                         !.zones[zone].muted = FALSE,
                         !.reported[zone].volume = TRUE],
              "volumeChanged", zone)

\* #onVolumeChanged(parameter, zone); parameter.startsWith throws on undefined.
onVolumeChanged(st, parameter, zone) ==
    IF parameter = UndefinedText
    THEN [st EXCEPT !.threw = TRUE]
    ELSE IF startsWith(parameter, <<"M", "A", "X">>)
    THEN [st EXCEPT !.zones[zone].maxVolume = volumeNumber(substring(parameter, 4))]
    ELSE emit([st EXCEPT !.zones[zone].volume = volumeNumber(parameter),
                         !.zones[zone].muted = FALSE,
                         !.reported[zone].volume = TRUE],
              "volumeChanged", zone)

\* (a variant of onMuteChanged that is silent when the value is the one held)
onMuteChangedIfNew(st, parameter, zone) ==
    IF (parameter = <<"O", "N">>) = st.zones[zone].muted
    THEN [st EXCEPT !.reported[zone].muted = TRUE]
    ELSE emit([st EXCEPT !.zones[zone].muted = (parameter = <<"O", "N">>),
                         !.reported[zone].muted = TRUE],
              "muteChanged", zone)

\* #onMuteChanged(parameter, zone)
onMuteChanged(st, parameter, zone) ==
    emit([st EXCEPT !.zones[zone].muted = (parameter = <<"O", "N">>),
                    !.reported[zone].muted = TRUE],
         "muteChanged", zone)

\* #onSourceChanged(parameter, zone)
onSourceChanged(st, parameter, zone) ==
    emit([st EXCEPT !.zones[zone].source = parameter], "sourceChanged", zone)

\* ["HEV", "MED", "LIT", "OFF"]
DynamicVolumes == {<<"H", "E", "V">>, <<"M", "E", "D">>, <<"L", "I", "T">>, <<"O", "F", "F">>}

\* (a variant of onDynamicVolumeChanged that takes any value)
onDynamicVolumeChangedAny(st, parameter) ==
    emit([st EXCEPT !.zones[0].dynamicVolume = parameter], "dynamicVolumeChanged", 0)

\* #onDynamicVolumeChanged(parameter)
onDynamicVolumeChanged(st, parameter) ==
    IF parameter \notin DynamicVolumes
    THEN st
    ELSE emit([st EXCEPT !.zones[0].dynamicVolume = parameter], "dynamicVolumeChanged", 0)

\* The command, the parameter and the zone #onData reads from one line.
decode(line) ==
    IF startsWith(line, <<"Z", "2">>)
    THEN LET rest == substring(line, 2)
             n == parseInt(substring2(rest, 0, 2))
         IN  IF n # NaN /\ n > 0
             THEN [command |-> <<"M", "V">>, parameter |-> substring(rest, 2), zone |-> 1]
             ELSE IF startsWith(rest, <<"O", "N">>) \/ startsWith(rest, <<"O", "F", "F">>)
             THEN [command |-> <<"P", "W">>, parameter |-> rest, zone |-> 1]
             ELSE IF inSources(rest)
             THEN [command |-> <<"S", "I">>, parameter |-> rest, zone |-> 1]
             ELSE [command |-> substring2(rest, 0, 2), parameter |-> substring(rest, 2),
                   zone |-> 1]
    ELSE IF startsWith(line, <<"P", "S">>)
    THEN LET parts == split(substring(line, 2), " ")
         IN  [command |-> parts[1],
              parameter |-> IF Len(parts) >= 2 THEN parts[2] ELSE UndefinedText,
              zone |-> 0]
    ELSE [command |-> substring2(line, 0, 2), parameter |-> substring(line, 2), zone |-> 0]

\* switch (command)
dispatch(st, line) ==
    LET d == decode(line)
    IN  CASE d.command = <<"P", "W">> -> onPowerChanged(st, d.parameter, d.zone)
          [] d.command = <<"M", "V">> -> onVolumeChanged(st, d.parameter, d.zone)
          [] d.command = <<"M", "U">> -> onMuteChanged(st, d.parameter, d.zone)
          [] d.command = <<"S", "I">> -> onSourceChanged(st, d.parameter, d.zone)
          [] d.command = <<"D", "Y", "N", "V", "O", "L">> -> onDynamicVolumeChanged(st, d.parameter)
          [] OTHER -> st

\* for (let line of lines): the empty lines are skipped; a handler that
\* throws ends the turn.
RECURSIVE onDataLines(_, _)
onDataLines(st, lines) ==
    IF lines = <<>> \/ st.threw THEN st
    ELSE IF Len(Head(lines)) = 0 THEN onDataLines(st, Tail(lines))
    ELSE onDataLines(dispatch(st, Head(lines)), Tail(lines))

\* (a variant of onData that reads the first line of the data only)
onDataFirstLine(data) == onDataLines(Decoding, <<Head(split(data, "\r"))>>)

\* #onData(data)
onData(data) == onDataLines(Decoding, split(data, "\r"))

\* The 'data' event of an open socket.
OnData(data) ==
    /\ \E s \in SockIds : sock[s] = "open"
    /\ LET st == onData(data)
       IN  /\ zones' = st.zones
           /\ emitted' = st.emitted
           /\ reported' = st.reported
           /\ turn' = [NoTurn EXCEPT !.kind = "onData", !.count = reconnectCount,
                       !.timers = timers, !.telnet = telnet, !.threw = st.threw,
                       !.data = data, !.before = zones]
    /\ wrote' = <<>>
    /\ call' = NoCall
    /\ UNCHANGED <<sock, telnet, reconnectCount, timers, statusMsg, lastError,
                   callerClosed, hostNotFound>>
    /\ UNCHANGED subscriptionVars
    /\ UNCHANGED trackerVars
    /\ UNCHANGED ssdpVars

-----------------------------------------------------------------------------
(* The command methods.                                                     *)

\* What a command method finds: the socket this.#telnet names and the status
\* of the zone.
Found(op, zone) ==
    [NoCall EXCEPT !.op = op, !.zone = zone,
                   !.sockState = IF telnet = Undefined THEN "undefined" ELSE sock[telnet],
                   !.power = zones[zone].power, !.muted = zones[zone].muted,
                   !.volume = zones[zone].volume, !.maxVolume = zones[zone].maxVolume]

\* A command method returns; text is what it handed to telnet.write(), if
\* anything.  The status and the sockets are as they were.
Returns(c, texts) ==
    /\ call' = c
    /\ wrote' = texts
    /\ emitted' = <<>>
    /\ turn' = [NoTurn EXCEPT !.kind = "command", !.count = reconnectCount,
                !.timers = timers, !.telnet = telnet]
    /\ UNCHANGED <<sock, telnet, reconnectCount, timers, statusMsg, zones, lastError,
                   callerClosed, hostNotFound, reported>>
    /\ UNCHANGED subscriptionVars
    /\ UNCHANGED trackerVars
    /\ UNCHANGED ssdpVars

\* if (value === undefined) value = !status.power  /  !status.muted
Toggled(value, state) == IF value = "undefined" THEN ~state ELSE value = "true"

\* if (!telnet) return false
NoTelnet == telnet = Undefined

\* setPower(value, zone)
SetPower(value, zone) ==
    LET c == [Found("setPower", zone) EXCEPT !.value = value,
                                              !.known = reported[zone].power]
        on == Toggled(value, zones[zone].power)
        command == (IF zone = 0 THEN <<"P", "W">> ELSE <<"Z", "2">>)
                   \o (IF on THEN <<"O", "N">>
                       ELSE IF zone = 0 THEN <<"S", "T", "A", "N", "D", "B", "Y">>
                       ELSE <<"O", "F", "F">>)
    IN  IF NoTelnet
        THEN Returns(c, <<>>)
        ELSE Returns([c EXCEPT !.ret = TRUE], <<command \o CR>>)

\* setMute(value, zone)
SetMute(value, zone) ==
    LET c == [Found("setMute", zone) EXCEPT !.value = value,
                                             !.known = reported[zone].muted]
        on == Toggled(value, zones[zone].muted)
        command == (IF zone = 0 THEN <<"M", "U">> ELSE <<"Z", "2", "M", "U">>)
                   \o (IF on THEN <<"O", "N">> ELSE <<"O", "F", "F">>)
    IN  IF NoTelnet \/ ~zones[zone].power
        THEN Returns(c, <<>>)
        ELSE Returns([c EXCEPT !.ret = TRUE], <<command \o CR>>)

\* (a variant of SetSource that uses the prefix of the main zone for both)
SetSourceMainPrefix(value, zone) ==
    LET c == [Found("setSource", zone) EXCEPT !.text = value]
        command == <<"S", "I">> \o value
    IN  IF NoTelnet \/ value = <<>>
        THEN Returns(c, <<>>)
        ELSE Returns([c EXCEPT !.ret = TRUE], <<command \o CR>>)

\* setSource(value, zone)
SetSource(value, zone) ==
    LET c == [Found("setSource", zone) EXCEPT !.text = value]
        command == (IF zone = 0 THEN <<"S", "I">> ELSE <<"Z", "2">>) \o value
    IN  IF NoTelnet \/ value = <<>>
        THEN Returns(c, <<>>)
        ELSE Returns([c EXCEPT !.ret = TRUE], <<command \o CR>>)

\* setVideoSelectSource(value)
SetVideoSelectSource(value) ==
    LET c == [Found("setVideoSelectSource", 0) EXCEPT !.text = value]
        command == <<"S", "V">> \o value
    IN  IF NoTelnet \/ value = <<>>
        THEN Returns(c, <<>>)
        ELSE Returns([c EXCEPT !.ret = TRUE], <<command \o CR>>)

\* setDynamicVolume(value)
SetDynamicVolume(value) ==
    LET c == [Found("setDynamicVolume", 0) EXCEPT !.text = value]
        command == <<"P", "S", "D", "Y", "N", "V", "O", "L", " ">> \o value
    IN  IF NoTelnet
        THEN Returns(c, <<>>)
        ELSE Returns([c EXCEPT !.ret = TRUE], <<command \o CR>>)

\* (a variant of ClampedVolume without the upper limit)
ClampedBelowOnly(volume, maxVolume, delta) ==
    MathMax(0, MathRound(Plus(volume, delta * 10)))

\* Math.max(0, Math.min(status.maxVolume, Math.round(status.volume + delta)))
ClampedVolume(volume, maxVolume, delta) ==
    MathMax(0, MathMin(maxVolume, MathRound(Plus(volume, delta * 10))))

\* changeVolume(delta, zone); status.volume is never undefined.
ChangeVolume(delta, zone) ==
    LET target == ClampedVolume(zones[zone].volume, zones[zone].maxVolume, delta)
        c == [Found("changeVolume", zone) EXCEPT !.delta = delta,
                                                  !.known = reported[zone].volume,
                                                  !.target = target]
        command == (IF zone = 0 THEN <<"M", "V">> ELSE <<"Z", "2">>)
                   \o (IF delta = 1 THEN <<"U", "P">>
                       ELSE IF delta = -1 THEN <<"D", "O", "W", "N">>
                       ELSE padStart2(toString(target)))
    IN  IF NoTelnet \/ ~zones[zone].power
        THEN Returns(c, <<>>)
        ELSE Returns([c EXCEPT !.ret = TRUE], <<command \o CR>>)

\* (a variant of AbsoluteVolume that clamps as changeVolume does)
AbsoluteVolumeClamped(value, maxVolume) == MathMax(0, MathMin(maxVolume, value * 10))

\* The volume changeVolumeAbsolute asks for: value itself, a whole number of steps.
AbsoluteVolume(value, maxVolume) == value * 10

\* changeVolumeAbsolute(value, zone)
ChangeVolumeAbsolute(value, zone) ==
    LET target == AbsoluteVolume(value, zones[zone].maxVolume)
        c == [Found("changeVolumeAbsolute", zone) EXCEPT !.known = reported[zone].power,
                                                          !.delta = value,
                                                          !.target = target]
        command == (IF zone = 0 THEN <<"M", "V">> ELSE <<"Z", "2">>)
                   \o padStart2(toString(target))
    IN  IF NoTelnet \/ ~zones[zone].power
        THEN Returns(c, <<>>)
        ELSE Returns([c EXCEPT !.ret = TRUE], <<command \o CR>>)

-----------------------------------------------------------------------------
(* AVRTracker: listen(), the responses, searchForReceivers().               *)

Callers == 1..NumCallers

\* The identities of the receivers on the network, and the address of each.
UUIDs == {<<"A", "B", "1", Digit[i + 1]>> : i \in 1..NumReceivers}
AddressOf(u) == <<"1", "0", ".", "0", ".", "0", ".">> \o <<u[4]>>
Addresses == {AddressOf(u) : u \in UUIDs}

NoScan == [scan |-> 0, starter |-> FALSE]
NoArgs == <<0, 0>>
NoTrackerTurn == [kind |-> "none", caller |-> 0, sends |-> 0, scanning |-> TRUE,
                  waiting |-> {}, message |-> <<>>, address |-> <<>>,
                  uuid |-> UndefinedText, isNew |-> FALSE, updated |-> 0,
                  outcome |-> "none", unhandled |-> FALSE, query |-> <<>>, wait |-> 0]

\* Nothing was handed to setGlobalSettings() yet.
NothingSaved == <<"nothing">>

\* (a variant of ReceiverInfo that does not read the clock)
ReceiverInfoUndated(address, descriptionURL) ==
    [currentIP |-> address, descriptionURL |-> descriptionURL, lastSeen |-> 0,
     name |-> UndefinedText]

\* An entry of receiverList as onResponse makes it, and as the settings of an
\* earlier session hold it.
ReceiverInfo(address, descriptionURL) ==
    [currentIP |-> address, descriptionURL |-> descriptionURL, lastSeen |-> clock,
     name |-> UndefinedText]
CachedInfo(u) ==
    [currentIP |-> AddressOf(u), descriptionURL |-> UndefinedText, lastSeen |-> 0,
     name |-> UndefinedText]
FriendlyName == <<"Denon AVR">>

TrackerInit ==
    /\ isScanning = TRUE           \* tracker.js:56
    /\ listenPc = "start"
    /\ receiverList = {}
    /\ pc = [c \in Callers |-> "idle"]
    /\ rounds = [c \in Callers |-> 0]
    /\ args = [c \in Callers |-> NoArgs]
    /\ round = [c \in Callers |-> 0]
    /\ result = [c \in Callers |-> {}]
    /\ joined = [c \in Callers |-> NoScan]
    /\ sent = [c \in Callers |-> 0]
    /\ scanNo = 0
    /\ sends = 0
    /\ owed = 0
    /\ calls = 0
    /\ tturn = NoTrackerTurn
    /\ receivers = <<>>
    /\ clock = 0
    /\ immediates = 0
    /\ fetching = <<>>
    /\ persistTimers = 0
    /\ saving = 0
    /\ saved = NothingSaved

Waiting == {c \in Callers : pc[c] = "waiting"}
Looping == {c \in Callers : pc[c] = "looping"}

\* (a variant of ListenScanned for a listen() that ends without its signal)
ListenScannedNobody == pc

\* emitter.emit("scanned") of listen(): every promise made by
\* once("scanned", resolve) is resolved, and the callers awaiting them return
\* receiverList in the microtasks of this same turn.
ListenScanned == [c \in Callers |-> IF c \in Waiting THEN "returned" ELSE pc[c]]
ListenResult(list) == [c \in Callers |-> IF c \in Waiting THEN list ELSE result[c]]

\* receiverList = settings.receiverList: every entry is a new object, and the
\* fetches in flight go on with the objects they took.
Orphaned(fetches) ==
    [i \in 1..Len(fetches) |-> [fetches[i] EXCEPT !.current = FALSE]]

\* listen(): the socket is made and bound.
ListenBind ==
    /\ listenPc = "start"
    /\ listenPc' = "bound"
    /\ tturn' = [NoTrackerTurn EXCEPT !.kind = "bind", !.sends = sends,
                 !.scanning = isScanning, !.waiting = Waiting]
    /\ UNCHANGED <<isScanning, receiverList, pc, rounds, args, round, result, joined, sent,
                   scanNo, sends, owed, calls>>
    /\ UNCHANGED cacheVars
    /\ UNCHANGED connVars
    /\ UNCHANGED ssdpVars

\* listen(), after the bind: readFromPersistentCache() replaces receiverList
\* by the list of the global settings if they hold one; then isScanning = false
\* and "scanned" is emitted.
ListenDone(cached) ==
    /\ listenPc = "bound"
    /\ listenPc' = "done"
    /\ receiverList' = IF cached # {} THEN cached ELSE receiverList
    /\ receivers' = IF cached # {} THEN [u \in cached |-> CachedInfo(u)] ELSE receivers
    /\ fetching' = IF cached # {} THEN Orphaned(fetching) ELSE fetching
    /\ isScanning' = FALSE
    /\ pc' = ListenScanned
    /\ result' = ListenResult(receiverList')
    /\ tturn' = [NoTrackerTurn EXCEPT !.kind = "listened", !.sends = sends,
                 !.scanning = isScanning, !.waiting = Waiting]
    /\ UNCHANGED <<rounds, args, round, joined, sent, scanNo, sends, owed, calls>>
    /\ UNCHANGED <<clock, immediates, persistTimers, saving, saved>>
    /\ UNCHANGED connVars
    /\ UNCHANGED ssdpVars

\* parseHeaders(message): the key and the value of every line, in order.  A
\* line without ": " has no value, and what follows a second ": " is dropped.
parseHeaders(message) ==
    LET lines == splitText(message, <<"\r", "\n">>)
    IN  [i \in 1..Len(lines) |->
            LET parts == splitText(lines[i], <<":", " ">>)
            IN  [key |-> parts[1],
                 value |-> IF Len(parts) >= 2 THEN parts[2] ELSE UndefinedText]]

\* headers[key]: the value of the last line with the key
header(headers, key) ==
    LET at == {i \in 1..Len(headers) : headers[i].key = key}
    IN  IF at = {} THEN UndefinedText
        ELSE headers[CHOOSE i \in at : \A j \in at : j <= i].value

\* A variant of uuidOf that does not cut the USN at its "::".
uuidOfWhole(usn) ==
    LET parts == splitText(usn, <<"u", "u", "i", "d", ":">>)
    IN  IF Len(parts) >= 2 THEN parts[2] ELSE UndefinedText

\* usn.split("::")[0].split("uuid:")[1]
uuidOf(usn) ==
    LET parts == splitText(splitText(usn, <<":", ":">>)[1], <<"u", "u", "i", "d", ":">>)
    IN  IF Len(parts) >= 2 THEN parts[2] ELSE UndefinedText

\* The identity onResponse reads from the headers, undefined if it reads none.
\* if (!usn) return; ... if (!uuid) return;
responseUUID(headers) ==
    LET usn == header(headers, <<"U", "S", "N">>)
    IN  IF Falsy(usn) THEN UndefinedText
        ELSE LET uuid == uuidOf(usn)
             IN  IF Falsy(uuid) THEN UndefinedText ELSE uuid

\* headers.LOCATION || undefined
responseURL(headers) ==
    LET location == header(headers, <<"L", "O", "C", "A", "T", "I", "O", "N">>)
    IN  IF Falsy(location) THEN UndefinedText ELSE location

\* receiverList[uuid] = receiver: the entry of uuid is a new object, and the
\* fetches started for the object it replaces go on with that object.
OrphanedAt(fetches, uuid) ==
    [i \in 1..Len(fetches) |->
        IF fetches[i].uuid = uuid THEN [fetches[i] EXCEPT !.current = FALSE] ELSE fetches[i]]

\* onResponse(message, rinfo): a datagram arrives on the bound socket.
OnResponse(message, address) ==
    /\ listenPc \in {"bound", "done"}
    /\ \E headers \in {parseHeaders(message)} :
       \E uuid \in {responseUUID(headers)}, descriptionURL \in {responseURL(headers)} :
       LET isNew == uuid \notin receiverList
       IN  /\ tturn' = [NoTrackerTurn EXCEPT !.kind = "response", !.sends = sends,
                        !.scanning = isScanning, !.waiting = Waiting,
                        !.message = message, !.address = address, !.uuid = uuid,
                        !.isNew = (uuid # UndefinedText /\ isNew)]
           /\ IF uuid = UndefinedText
              THEN UNCHANGED <<receiverList, receivers, immediates, fetching, persistTimers>>
              ELSE /\ receiverList' = receiverList \cup {uuid}
                   /\ receivers' = [u \in receiverList \cup {uuid} |->
                                       IF u = uuid THEN ReceiverInfo(address, descriptionURL)
                                       ELSE receivers[u]]
                   /\ IF descriptionURL # UndefinedText
                      THEN \* updateNameFromDescriptionURL(uuid).then(...); return
                           /\ Len(fetching) < MaxFetches
                           /\ fetching' = Append(OrphanedAt(fetching, uuid),
                                                 [uuid |-> uuid, isNew |-> isNew,
                                                  current |-> TRUE])
                           /\ UNCHANGED <<immediates, persistTimers>>
                      ELSE \* setImmediate(...) if new; updatePersistentCache()
                           /\ fetching' = OrphanedAt(fetching, uuid)
                           /\ immediates' = IF isNew THEN immediates + 1 ELSE immediates
                           /\ persistTimers' = 1
    /\ UNCHANGED <<isScanning, listenPc, pc, rounds, args, round, result, joined, sent,
                   scanNo, sends, owed, calls, clock, saving, saved>>
    /\ UNCHANGED connVars
    /\ UNCHANGED ssdpVars

\* The callback of setImmediate runs: emitter.emit("updated").
Immediate ==
    /\ immediates > 0
    /\ immediates' = immediates - 1
    /\ tturn' = [NoTrackerTurn EXCEPT !.kind = "immediate", !.sends = sends,
                 !.scanning = isScanning, !.waiting = Waiting, !.updated = 1]
    /\ UNCHANGED <<isScanning, listenPc, receiverList, pc, rounds, args, round, result, joined,
                   sent, scanNo, sends, owed, calls, receivers, clock, fetching,
                   persistTimers, saving, saved>>
    /\ UNCHANGED connVars
    /\ UNCHANGED ssdpVars

\* How a name fetch can end: with a name, with a status that is not OK, with
\* a document without friendlyName, or with fetch() rejecting.
FetchOutcomes == {"named", "notOk", "noName", "rejected"}

\* What updateNameFromDescriptionURL does to the entry it holds.
Fetched(info, outcome) ==
    CASE outcome = "named" -> [info EXCEPT !.name = FriendlyName]
      [] outcome \in {"notOk", "noName"} -> [info EXCEPT !.descriptionURL = UndefinedText]
      [] OTHER -> info

\* The fetch of fetching[i] ends.  The entry it changes is the object it took
\* from receiverList when it started.  After it comes the then() of onResponse:
\* emit("updated") if the identity was new, and updatePersistentCache(); a
\* rejected fetch skips it.
FetchDone(i, outcome) ==
    /\ i \in 1..Len(fetching)
    /\ LET f == fetching[i]
       IN  /\ receivers' = IF f.current
                           THEN [receivers EXCEPT ![f.uuid] = Fetched(@, outcome)]
                           ELSE receivers
           /\ tturn' = [NoTrackerTurn EXCEPT !.kind = "fetched", !.sends = sends,
                        !.scanning = isScanning, !.waiting = Waiting, !.uuid = f.uuid,
                        !.isNew = f.isNew,
                        !.updated = IF outcome # "rejected" /\ f.isNew THEN 1 ELSE 0,
                        !.outcome = outcome, !.unhandled = (outcome = "rejected")]
    /\ fetching' = SubSeq(fetching, 1, i - 1) \o SubSeq(fetching, i + 1, Len(fetching))
    /\ persistTimers' = IF outcome # "rejected" THEN 1 ELSE persistTimers
    /\ UNCHANGED <<isScanning, listenPc, receiverList, pc, rounds, args, round, result, joined,
                   sent, scanNo, sends, owed, calls, clock, immediates, saving, saved>>
    /\ UNCHANGED connVars
    /\ UNCHANGED ssdpVars

\* The timer of updatePersistentCache fires: getGlobalSettings() is called.
PersistTimer ==
    /\ persistTimers > 0
    /\ saving < MaxSaving
    /\ persistTimers' = persistTimers - 1
    /\ saving' = saving + 1
    /\ tturn' = [NoTrackerTurn EXCEPT !.kind = "persistTimer", !.sends = sends,
                 !.scanning = isScanning, !.waiting = Waiting]
    /\ UNCHANGED <<isScanning, listenPc, receiverList, pc, rounds, args, round, result, joined,
                   sent, scanNo, sends, owed, calls, receivers, clock, immediates,
                   fetching, saved>>
    /\ UNCHANGED connVars
    /\ UNCHANGED ssdpVars

\* getGlobalSettings() resolves: settings.receiverList = receiverList, the list
\* as it is now, and setGlobalSettings(settings).
PersistWrite ==
    /\ saving > 0
    /\ saving' = saving - 1
    /\ saved' = receivers
    /\ tturn' = [NoTrackerTurn EXCEPT !.kind = "persisted", !.sends = sends,
                 !.scanning = isScanning, !.waiting = Waiting]
    /\ UNCHANGED <<isScanning, listenPc, receiverList, pc, rounds, args, round, result, joined,
                   sent, scanNo, sends, owed, calls, receivers, clock, immediates,
                   fetching, persistTimers>>
    /\ UNCHANGED connVars
    /\ UNCHANGED ssdpVars

\* Time passes.
Tick ==
    /\ clock < MaxClock
    /\ clock' = clock + 1
    /\ tturn' = [NoTrackerTurn EXCEPT !.kind = "tick", !.sends = sends,
                 !.scanning = isScanning, !.waiting = Waiting]
    /\ UNCHANGED <<isScanning, listenPc, receiverList, pc, rounds, args, round, result, joined,
                   sent, scanNo, sends, owed, calls, receivers, immediates, fetching,
                   persistTimers, saving, saved>>
    /\ UNCHANGED connVars
    /\ UNCHANGED ssdpVars

\* tracker.js:29-31
SSDP_SEARCH_MX == 3
SSDP_BROADCAST_INTERVAL == SSDP_SEARCH_MX * 1000
SSDP_BROADCAST_LIMIT == 3

\* createSSDPMessage(mx)
createSSDPMessage(mx) ==
    <<"M", "-", "S", "E", "A", "R", "C", "H", " ", "*", " ", "H", "T", "T", "P", "/", "1", ".", "1", "\r", "\n">>
    \o <<"H", "O", "S", "T", ":", " ", "2", "3", "9", ".", "2", "5", "5", ".", "2", "5", "5", ".", "2", "5", "0", ":", "1", "9", "0", "0", "\r", "\n">>
    \o <<"M", "A", "N", ":", " ", "\"", "s", "s", "d", "p", ":", "d", "i", "s", "c", "o", "v", "e", "r", "\"", "\r", "\n">>
    \o <<"M", "X", ":", " ">> \o natToString(mx) \o <<"\r", "\n">>
    \o <<"S", "T", ":", " ", "u", "r", "n", ":", "s", "c", "h", "e", "m", "a", "s", "-", "d", "e", "n", "o", "n", "-", "c", "o", "m", ":", "d", "e", "v", "i", "c", "e", ":", "A", "C", "T", "-", "D", "e", "n", "o", "n", ":", "1", "\r", "\n">>
    \o <<"\r", "\n">>

\* A parameter with a default value: the default stands in for undefined,
\* which is what a call passes when it leaves the argument out.
UndefinedArg == -1
DefaultArg(arg, default) == IF arg = UndefinedArg THEN default ELSE arg

\* setTimeout(resolve, maxWait * 1000): the milliseconds of the wait of a round
RoundWait(maxWait) == maxWait * 1000

\* (a variant of AlreadyScanning that never joins a scan in flight)
NeverJoins == FALSE

\* if (isScanning) of searchForReceivers
AlreadyScanning == isScanning

\* for (let i = 1; i <= count; i++)
LoopContinues(i, count) == i <= count

\* (a variant of Released for a scan that ends without its signal)
ReleasedNobody == {}

\* What ends a scan: isScanning = false, emit("scanned"), return receiverList.
\* Who is released by the emit.
Released == Waiting

\* searchForReceivers(count, maxWait) called by c.  While a scan is in flight
\* the call waits for "scanned".  Otherwise it starts a scan, and runs it up to
\* its first await: the first round of queries is sent in this turn.  A scan
\* of no rounds ends in this turn.
Search(c, countArg, maxWaitArg) ==
    LET count == DefaultArg(countArg, SSDP_BROADCAST_LIMIT)
        maxWait == DefaultArg(maxWaitArg, SSDP_BROADCAST_INTERVAL)
    IN
    /\ pc[c] = "idle"
    /\ calls < MaxCalls
    /\ calls' = calls + 1
    /\ args' = [args EXCEPT ![c] = <<countArg, maxWaitArg>>]
    /\ sent' = [sent EXCEPT ![c] = IF ~AlreadyScanning /\ LoopContinues(1, count) THEN 1 ELSE 0]
    /\ rounds' = [rounds EXCEPT ![c] = count]
    /\ IF AlreadyScanning
       THEN /\ pc' = [pc EXCEPT ![c] = "waiting"]
            /\ joined' = [joined EXCEPT ![c] = [scan |-> scanNo, starter |-> FALSE]]
            /\ tturn' = [NoTrackerTurn EXCEPT !.kind = "join", !.caller = c, !.sends = sends,
                         !.scanning = isScanning, !.waiting = Waiting]
            /\ UNCHANGED <<isScanning, round, result, scanNo, sends, owed>>
       ELSE /\ scanNo' = scanNo + 1
            /\ joined' = [joined EXCEPT ![c] = [scan |-> scanNo + 1, starter |-> TRUE]]
            /\ owed' = owed + count
            /\ round' = [round EXCEPT ![c] = 1]
            /\ tturn' = [NoTrackerTurn EXCEPT
                         !.kind = "start", !.caller = c, !.sends = sends,
                         !.scanning = isScanning, !.waiting = Waiting,
                         !.query = IF LoopContinues(1, count)
                                   THEN createSSDPMessage(maxWait) ELSE <<>>,
                         !.wait = IF LoopContinues(1, count) THEN RoundWait(maxWait) ELSE 0]
            /\ IF LoopContinues(1, count)
               THEN /\ isScanning' = TRUE
                    /\ sends' = sends + 1
                    /\ pc' = [pc EXCEPT ![c] = "looping"]
                    /\ UNCHANGED result
               ELSE /\ isScanning' = FALSE
                    /\ pc' = [c2 \in Callers |->
                                IF c2 = c \/ c2 \in Released THEN "returned" ELSE pc[c2]]
                    /\ result' = [c2 \in Callers |->
                                IF c2 = c \/ c2 \in Released THEN receiverList ELSE result[c2]]
                    /\ UNCHANGED sends
    /\ UNCHANGED <<listenPc, receiverList>>
    /\ UNCHANGED cacheVars
    /\ UNCHANGED connVars
    /\ UNCHANGED ssdpVars

\* The wait of a round is over (setTimeout(resolve, maxWait * 1000)): i++, and
\* either the next round of queries is sent or the scan ends.
RoundTimer(c) ==
    /\ pc[c] = "looping"
    /\ round' = [round EXCEPT ![c] = round[c] + 1]
    /\ tturn' = [NoTrackerTurn EXCEPT !.kind = IF LoopContinues(round[c] + 1, rounds[c])
                                                THEN "round" ELSE "finish",
                 !.caller = c, !.sends = sends, !.scanning = isScanning, !.waiting = Waiting,
                 !.query = IF LoopContinues(round[c] + 1, rounds[c])
                           THEN createSSDPMessage(DefaultArg(args[c][2], SSDP_BROADCAST_INTERVAL))
                           ELSE <<>>,
                 !.wait = IF LoopContinues(round[c] + 1, rounds[c])
                          THEN RoundWait(DefaultArg(args[c][2], SSDP_BROADCAST_INTERVAL))
                          ELSE 0]
    /\ IF LoopContinues(round[c] + 1, rounds[c])
       THEN /\ sends' = sends + 1
            /\ sent' = [sent EXCEPT ![c] = sent[c] + 1]
            /\ UNCHANGED <<isScanning, pc, result>>
       ELSE /\ isScanning' = FALSE
            /\ pc' = [c2 \in Callers |->
                        IF c2 = c \/ c2 \in Released THEN "returned" ELSE pc[c2]]
            /\ result' = [c2 \in Callers |->
                        IF c2 = c \/ c2 \in Released THEN receiverList ELSE result[c2]]
            /\ UNCHANGED <<sends, sent>>
    /\ UNCHANGED <<listenPc, receiverList, rounds, args, joined, scanNo, owed, calls>>
    /\ UNCHANGED cacheVars
    /\ UNCHANGED connVars
    /\ UNCHANGED ssdpVars

\* The caller has its result and may call again.
Returned(c) ==
    /\ pc[c] = "returned"
    /\ calls < MaxCalls
    /\ pc' = [pc EXCEPT ![c] = "idle"]
    /\ joined' = [joined EXCEPT ![c] = NoScan]
    /\ result' = [result EXCEPT ![c] = {}]
    /\ sent' = [sent EXCEPT ![c] = 0]
    /\ rounds' = [rounds EXCEPT ![c] = 0]
    /\ args' = [args EXCEPT ![c] = NoArgs]
    /\ round' = [round EXCEPT ![c] = 0]
    /\ tturn' = [NoTrackerTurn EXCEPT !.kind = "again", !.caller = c, !.sends = sends,
                 !.scanning = isScanning, !.waiting = Waiting]
    /\ UNCHANGED <<isScanning, listenPc, receiverList, scanNo, sends, owed, calls>>
    /\ UNCHANGED cacheVars
    /\ UNCHANGED connVars
    /\ UNCHANGED ssdpVars

-----------------------------------------------------------------------------
(* The AVRTracker of ssdp.js, on the node-ssdp client.                      *)

\* const CACHE_TIME = 180 * 1000
CACHE_TIME == 180 * 1000

\* One step of the clock, in ms.
StepMs == CACHE_TIME \div StepsPerCacheTime

NoSsdpTurn == [kind |-> "none", uuid |-> UndefinedText, address |-> <<>>,
               repeat |-> FALSE, removed |-> FALSE, seenAt |-> 0]

SsdpInit ==
    /\ cacheDict = <<>>
    /\ cacheTimers = [u \in UUIDs |-> <<>>]
    /\ ssdpNow = 0
    /\ ssdpImmediates = 0
    /\ seenAt = [u \in UUIDs |-> 0]
    /\ sturn = NoSsdpTurn

\* clearTimeout(timer): the timer, if it is still pending, is dropped.
clearTimeout(pending, timer) ==
    IF \E i \in 1..Len(pending) : pending[i] = timer
    THEN LET i == CHOOSE i \in 1..Len(pending) : pending[i] = timer
         IN  SubSeq(pending, 1, i - 1) \o SubSeq(pending, i + 1, Len(pending))
    ELSE pending

\* The identity onResponse reads from headers.USN, undefined if it reads none.
ssdpUUID(usn) ==
    IF Falsy(usn) THEN UndefinedText
    ELSE LET uuid == uuidOf(usn)
         IN  IF Falsy(uuid) THEN UndefinedText ELSE uuid

\* onResponse(headers, statusCode, rinfo) of ssdp.js: the 'response' event of
\* the client.
SsdpOnResponse(usn, address) ==
    /\ \E uuid \in {ssdpUUID(usn)} :
       LET due == ssdpNow + CACHE_TIME
       IN  /\ sturn' = [NoSsdpTurn EXCEPT !.kind = "response", !.uuid = uuid,
                        !.address = address,
                        !.repeat = (uuid # UndefinedText /\ uuid \in DOMAIN cacheDict)]
           /\ IF uuid = UndefinedText
              THEN UNCHANGED <<cacheDict, cacheTimers, ssdpImmediates, seenAt>>
              ELSE /\ seenAt' = [seenAt EXCEPT ![uuid] = ssdpNow]
                   /\ IF uuid \in DOMAIN cacheDict
                      THEN \* clearTimeout; cacheTimer = setTimeout(...); return
                           /\ cacheTimers' =
                                 [cacheTimers EXCEPT ![uuid] =
                                     Append(clearTimeout(@, cacheDict[uuid].cacheTimer), due)]
                           /\ cacheDict' = [cacheDict EXCEPT ![uuid].cacheTimer = due]
                           /\ UNCHANGED ssdpImmediates
                      ELSE /\ cacheTimers' = [cacheTimers EXCEPT ![uuid] = Append(@, due)]
                           /\ cacheDict' =
                                 [u \in DOMAIN cacheDict \cup {uuid} |->
                                     IF u = uuid
                                     THEN [currentIP |-> address, cacheTimer |-> due]
                                     ELSE cacheDict[u]]
                           /\ ssdpImmediates' = ssdpImmediates + 1
    /\ UNCHANGED ssdpNow
    /\ UNCHANGED connVars
    /\ UNCHANGED trackerVars

\* The callback of setImmediate runs: emitter.emit("updated", receivers()).
SsdpImmediate ==
    /\ ssdpImmediates > 0
    /\ ssdpImmediates' = ssdpImmediates - 1
    /\ sturn' = [NoSsdpTurn EXCEPT !.kind = "immediate"]
    /\ UNCHANGED <<cacheDict, cacheTimers, ssdpNow, seenAt>>
    /\ UNCHANGED connVars
    /\ UNCHANGED trackerVars

\* A timer of onResponse is due and fires: expireFromCache(uuid).
expireFromCache(uuid) ==
    /\ \E i \in 1..Len(cacheTimers[uuid]) :
          /\ cacheTimers[uuid][i] <= ssdpNow
          /\ cacheTimers' = [cacheTimers EXCEPT ![uuid] =
                                SubSeq(@, 1, i - 1) \o SubSeq(@, i + 1, Len(@))]
    /\ cacheDict' = [u \in DOMAIN cacheDict \ {uuid} |-> cacheDict[u]]
    /\ sturn' = [NoSsdpTurn EXCEPT !.kind = "expired", !.uuid = uuid,
                 !.removed = (uuid \in DOMAIN cacheDict), !.seenAt = seenAt[uuid]]
    /\ UNCHANGED <<ssdpNow, ssdpImmediates, seenAt>>
    /\ UNCHANGED connVars
    /\ UNCHANGED trackerVars

\* Time passes, once the timers that are due and the callbacks of
\* setImmediate have run.
SsdpTick ==
    /\ ssdpNow < MaxSteps * StepMs
    /\ ssdpImmediates = 0
    /\ \A u \in UUIDs : \A i \in 1..Len(cacheTimers[u]) : cacheTimers[u][i] > ssdpNow
    /\ ssdpNow' = ssdpNow + StepMs
    /\ sturn' = [NoSsdpTurn EXCEPT !.kind = "tick"]
    /\ UNCHANGED <<cacheDict, cacheTimers, ssdpImmediates, seenAt>>
    /\ UNCHANGED connVars
    /\ UNCHANGED trackerVars

-----------------------------------------------------------------------------
(* The specifications.                                                      *)

Init == ConnInit /\ TrackerInit /\ SsdpInit

\* The life of one connection.
LifeNext ==
    \/ Connect
    \/ Disconnect
    \/ \E s \in SockIds : OnConnect(s)
    \/ \E s \in SockIds, code \in ErrorCodes : OnError(s, code)
    \/ \E s \in SockIds : OnClose(s)
    \/ ReconnectTimer

LifeSpec == Init /\ [][LifeNext]_vars

\* A timer that is pending fires.
LifeFairSpec == LifeSpec /\ WF_vars(ReconnectTimer)

\* What the owner of a connection may pass to its command methods.
MaxDelta == 3
Toggles == {"undefined", "true", "false"}
SourceArgs == {<<>>, <<"C", "D">>, <<"T", "V">>}
DynamicVolumeArgs == {<<"O", "F", "F">>, <<"H", "E", "V">>}
Deltas == (-MaxDelta)..MaxDelta
AbsoluteArgs == {-3, 0, 5, 45, 99}

\* What the receiver sends: one status line in a 'data' event.
StatusData ==
    {<<"P", "W", "O", "N", "\r">>,
     <<"P", "W", "S", "T", "A", "N", "D", "B", "Y", "\r">>,
     <<"M", "V", "8", "5", "\r">>,
     <<"M", "V", "3", "5", "5", "\r">>,
     <<"M", "V", "M", "A", "X", " ", "6", "0", "\r">>,
     <<"M", "U", "O", "N", "\r">>,
     <<"M", "U", "O", "F", "F", "\r">>,
     <<"Z", "2", "O", "N", "\r">>,
     <<"Z", "2", "O", "F", "F", "\r">>,
     <<"Z", "2", "4", "0", "\r">>,
     <<"Z", "2", "M", "U", "O", "N", "\r">>}

\* The commands and the status lines of a connection whose socket opens and
\* stays open.
StatusNext ==
    \/ \E s \in SockIds : OnConnect(s)
    \/ \E data \in StatusData : OnData(data)
    \/ \E value \in Toggles, zone \in 0..1 : SetPower(value, zone)
    \/ \E value \in Toggles, zone \in 0..1 : SetMute(value, zone)
    \/ \E value \in SourceArgs, zone \in 0..1 : SetSource(value, zone)
    \/ \E value \in SourceArgs : SetVideoSelectSource(value)
    \/ \E value \in DynamicVolumeArgs : SetDynamicVolume(value)
    \/ \E delta \in Deltas, zone \in 0..1 : ChangeVolume(delta, zone)
    \/ \E value \in AbsoluteArgs, zone \in 0..1 : ChangeVolumeAbsolute(value, zone)

StatusSpec == Init /\ [][StatusNext]_vars

\* The commands of the main zone over the life of a connection whose owner
\* calls disconnect() but not connect().
CommandNext ==
    \/ Disconnect
    \/ \E s \in SockIds : OnConnect(s)
    \/ \E s \in SockIds, code \in ErrorCodes : OnError(s, code)
    \/ \E s \in SockIds : OnClose(s)
    \/ ReconnectTimer
    \/ OnData(<<"P", "W", "O", "N", "\r">>)
    \/ \E value \in Toggles : SetPower(value, 0)
    \/ \E value \in Toggles : SetMute(value, 0)
    \/ \E value \in SourceArgs : SetSource(value, 0)
    \/ \E value \in SourceArgs : SetVideoSelectSource(value)
    \/ \E value \in DynamicVolumeArgs : SetDynamicVolume(value)
    \/ \E delta \in {-1, 2} : ChangeVolume(delta, 0)
    \/ \E value \in {5} : ChangeVolumeAbsolute(value, 0)

CommandSpec == Init /\ [][CommandNext]_vars

\* The datagram of a response: a status line, then the header lines.
Datagram(headerLines) ==
    <<"H", "T", "T", "P", "/", "1", ".", "1", " ", "2", "0", "0", " ", "O", "K", "\r", "\n">> \o headerLines \o <<"\r", "\n">>
HeaderLine(key, value) == key \o <<":", " ">> \o value \o <<"\r", "\n">>

\* What a receiver sends: its USN, and its LOCATION if it has one.
USN(u) == <<"u", "u", "i", "d", ":">> \o u \o <<":", ":", "u", "r", "n", ":", "x">>
Sighting(u, location) ==
    Datagram(HeaderLine(<<"U", "S", "N">>, USN(u))
             \o (IF location = UndefinedText THEN <<>>
                  ELSE HeaderLine(<<"L", "O", "C", "A", "T", "I", "O", "N">>, location)))

\* The tracker.
TrackerNext ==
    \/ ListenBind
    \/ \E cached \in SUBSET UUIDs : ListenDone(cached)
    \/ \E u \in UUIDs : OnResponse(Sighting(u, UndefinedText), AddressOf(u))
    \/ \E c \in Callers, count \in 0..MaxRounds : Search(c, count, 1)
    \/ \E c \in Callers : RoundTimer(c)
    \/ \E c \in Callers : Returned(c)

TrackerSpec == Init /\ [][TrackerNext]_vars

\* listen() goes on once called, and a timer that is pending fires.
TrackerFairSpec ==
    /\ TrackerSpec
    /\ WF_vars(ListenBind)
    /\ WF_vars(\E cached \in SUBSET UUIDs : ListenDone(cached))
    /\ \A c \in Callers : WF_vars(RoundTimer(c))

\* The responses the tracker is sent: what the receivers send, with and
\* without a LOCATION and from either address, and from a third address
\* datagrams whose USN is not of that form or in which onResponse finds no USN.
DescriptionURL(u) == <<"h", "t", "t", "p", ":", "/", "/">> \o AddressOf(u) \o <<"/", "d">>
OddUSNs == {<<"u", "u", "i", "d", ":", "A", "B", "1", "2">>, <<"u", "r", "n", ":", ":", "u", "u", "i", "d", ":", "A", "B", "1", "2", ":", ":", "x">>, <<"u", "u", "i", "d", ":", ":", ":", "u", "r", "n", ":", "x">>, <<"u", "r", "n", ":", "x">>,
            <<"u", "u", "i", "d", ":", "A", "B", "u", "u", "i", "d", ":", "1", "2", ":", ":", "x">>, <<"u", "u", "i", "d", ":">>}
OddResponses ==
    {Datagram(HeaderLine(<<"U", "S", "N">>, usn)) : usn \in OddUSNs}
    \cup {Datagram(<<>>),
          Datagram(HeaderLine(<<"u", "s", "n">>, USN(<<"A", "B", "1", "2">>))),
          Datagram(<<"U", "S", "N", ":">> \o USN(<<"A", "B", "1", "2">>) \o <<"\r", "\n">>)}
OddAddress == <<"1", "0", ".", "0", ".", "0", ".", "9">>

ResponseNext ==
    \/ ListenBind
    \/ \E cached \in SUBSET UUIDs : ListenDone(cached)
    \/ \E u \in UUIDs, address \in Addresses :
          \E location \in {UndefinedText, DescriptionURL(u)} :
              OnResponse(Sighting(u, location), address)
    \/ \E message \in OddResponses : OnResponse(message, OddAddress)
    \/ Immediate
    \/ \E i \in 1..MaxFetches, outcome \in FetchOutcomes : FetchDone(i, outcome)

ResponseSpec == Init /\ [][ResponseNext]_vars

\* A callback of setImmediate runs, and a fetch ends in one way or another.
ResponseFairSpec ==
    /\ ResponseSpec
    /\ WF_vars(Immediate)
    /\ WF_vars(\E i \in 1..MaxFetches, outcome \in FetchOutcomes : FetchDone(i, outcome))

\* The receivers are sighted again and again, from either address, while time
\* passes.
SightingNext ==
    \/ ListenBind
    \/ \E cached \in SUBSET UUIDs : ListenDone(cached)
    \/ \E u \in UUIDs, address \in Addresses :
          \E location \in {UndefinedText, DescriptionURL(u)} :
              OnResponse(Sighting(u, location), address)
    \/ Immediate
    \/ \E i \in 1..MaxFetches, outcome \in FetchOutcomes : FetchDone(i, outcome)
    \/ Tick

SightingSpec == Init /\ [][SightingNext]_vars

\* The receivers are sighted, each from its address, their names are fetched
\* and the cache is written to the settings.
PersistNext ==
    \/ ListenBind
    \/ \E cached \in SUBSET UUIDs : ListenDone(cached)
    \/ \E u \in UUIDs :
          \E location \in {UndefinedText, DescriptionURL(u)} :
              OnResponse(Sighting(u, location), AddressOf(u))
    \/ Immediate
    \/ \E i \in 1..MaxFetches, outcome \in FetchOutcomes : FetchDone(i, outcome)
    \/ PersistTimer
    \/ PersistWrite

PersistSpec == Init /\ [][PersistNext]_vars

\* A timer that is pending fires, the settings answer a read, and a fetch
\* ends in one way or another.
PersistFairSpec ==
    /\ PersistSpec
    /\ WF_vars(PersistTimer)
    /\ WF_vars(PersistWrite)
    /\ WF_vars(\E i \in 1..MaxFetches, outcome \in FetchOutcomes : FetchDone(i, outcome))

\* A connection whose owner sets absolute volumes, before and after it calls
\* disconnect().
AbsoluteData == {<<"P", "W", "O", "N", "\r">>, <<"P", "W", "S", "T", "A", "N", "D", "B", "Y", "\r">>, <<"Z", "2", "O", "N", "\r">>, <<"Z", "2", "O", "F", "F", "\r">>, <<"M", "V", "M", "A", "X", " ", "6", "0", "\r">>}

AbsoluteNext ==
    \/ Disconnect
    \/ \E s \in SockIds : OnConnect(s)
    \/ \E data \in AbsoluteData : OnData(data)
    \/ \E value \in AbsoluteArgs, zone \in 0..1 : ChangeVolumeAbsolute(value, zone)

AbsoluteSpec == Init /\ [][AbsoluteNext]_vars

\* What the receiver sends, well formed or not: the data of one 'data' event.
DecodeData ==
    {<<"P", "W", "O", "N", "\r">>, <<"P", "W", "S", "T", "A", "N", "D", "B", "Y", "\r">>, <<"M", "V", "4", "5", "\r">>, <<"M", "V", "3", "5", "5", "\r">>, <<"M", "V", "M", "A", "X", " ", "8", "5", "5", "\r">>,
     <<"M", "U", "O", "N", "\r">>, <<"M", "U", "O", "F", "F", "\r">>, <<"S", "I", "C", "D", "\r">>, <<"P", "S", "D", "Y", "N", "V", "O", "L", " ", "H", "E", "V", "\r">>, <<"P", "S", "D", "Y", "N", "V", "O", "L", " ", "X", "X", "\r">>,
     <<"P", "S", "M", "V", "\r">>, <<"X", "X", "1", "2", "\r">>, <<"P", "\r">>, <<"Z", "2", "O", "N", "\r">>, <<"Z", "2", "M", "U", "O", "N", "\r">>,
     <<"P", "W", "O", "N", "\r", "P", "W", "O", "N", "\r">>, <<"P", "W", "O", "N", "\r", "M", "V", "4", "5", "\r", "M", "U", "O", "F", "F", "\r">>, <<"M", "U", "O", "N", "\r", "M", "V", "4", "5", "\r">>}

DecodeNext ==
    \/ \E s \in SockIds : OnConnect(s)
    \/ \E data \in DecodeData : OnData(data)

DecodeSpec == Init /\ [][DecodeNext]_vars

\* The volume lines of the main zone, of two and of three digits.
VolumeDigits == {"0", "3", "5", "9"}
VolumeTexts ==
    {<<a, b>> : a \in VolumeDigits, b \in VolumeDigits}
        \cup {<<a, b, c>> : a \in VolumeDigits, b \in VolumeDigits, c \in VolumeDigits}

VolumeNext ==
    \/ \E s \in SockIds : OnConnect(s)
    \/ \E text \in VolumeTexts : OnData(<<"M", "V">> \o text \o CR)

VolumeSpec == Init /\ [][VolumeNext]_vars

\* The MAX sub-form of the volume line, among lines that set the volume and
\* the mute.
MaxVolumeDigits == {"0", "5", "8"}
MaxVolumeTexts ==
    {<<a, b>> : a \in MaxVolumeDigits, b \in MaxVolumeDigits}
        \cup {<<a, b, c>> : a \in MaxVolumeDigits, b \in MaxVolumeDigits, c \in MaxVolumeDigits}

MaxVolumeNext ==
    \/ \E s \in SockIds : OnConnect(s)
    \/ \E text \in MaxVolumeTexts : OnData(<<"M", "V", "M", "A", "X", " ">> \o text \o CR)
    \/ \E data \in {<<"M", "V", "4", "5", "\r">>, <<"M", "U", "O", "N", "\r">>} : OnData(data)

MaxVolumeSpec == Init /\ [][MaxVolumeNext]_vars

\* Lines of every kind for the main zone and for zone 2, one in a data event.
ZoneData ==
    {<<"M", "V", "4", "5", "\r">>, <<"M", "V", "M", "A", "X", " ", "8", "5", "5", "\r">>, <<"M", "U", "O", "N", "\r">>, <<"S", "I", "C", "D", "\r">>,
     <<"P", "S", "D", "Y", "N", "V", "O", "L", " ", "H", "E", "V", "\r">>, <<"P", "S", "D", "Y", "N", "V", "O", "L", " ", "X", "X", "\r">>, <<"P", "S", "D", "Y", "N", "V", "O", "L", "\r">>,
     <<"Z", "2", "O", "N", "\r">>, <<"Z", "2", "4", "0", "\r">>, <<"Z", "2", "0", "0", "\r">>, <<"Z", "2", "M", "U", "O", "N", "\r">>, <<"Z", "2", "C", "D", "\r">>,
     <<"Z", "2", "D", "Y", "N", "V", "O", "L", " ", "H", "E", "V", "\r">>}

ZoneNext ==
    \/ \E s \in SockIds : OnConnect(s)
    \/ \E data \in ZoneData : OnData(data)

ZoneSpec == Init /\ [][ZoneNext]_vars

\* Data events that end with a line, and data events that end within one.
StreamData ==
    {<<"M", "V", "4", "5", "\r">>, <<"M", "U", "O", "N", "\r">>, <<"P", "W", "O", "N", "\r", "M", "U", "O", "F", "F", "\r">>, <<"S", "I", "C", "D", "\r">>, <<"Z", "2", "M", "U", "O", "N", "\r">>,
     <<"M", "V", "4">>, <<"5", "\r">>, <<"P", "W", "O", "N", "\r", "M", "U">>, <<"O", "N", "\r">>}

StreamNext ==
    \/ \E s \in SockIds : OnConnect(s)
    \/ \E data \in StreamData : OnData(data)

StreamSpec == Init /\ [][StreamNext]_vars

\* The volume lines of zone 2, of two and of three digits, among those of
\* the main zone and the mute line of zone 2.
Zone2VolumeNext ==
    \/ \E s \in SockIds : OnConnect(s)
    \/ \E text \in VolumeTexts : OnData(<<"Z", "2">> \o text \o CR)
    \/ \E data \in {<<"M", "V", "3", "5", "\r">>, <<"Z", "2", "M", "U", "O", "N", "\r">>} : OnData(data)

Zone2VolumeSpec == Init /\ [][Zone2VolumeNext]_vars

\* Lines with a recognized command and a value that is none of its values,
\* among well-formed lines.
MalformedData ==
    {<<"P", "W", "X", "X", "\r">>, <<"P", "W", "\r">>, <<"M", "U", "X", "X", "\r">>, <<"M", "U", "\r">>, <<"M", "V", "X", "X", "\r">>, <<"M", "V", "\r">>, <<"M", "V", "M", "A", "X", " ", "X", "X", "\r">>, <<"M", "V", "M", "A", "X", "\r">>,
     <<"S", "I", "X", "X", "\r">>, <<"Z", "2", "M", "U", "X", "X", "\r">>}
WellFormedData == {<<"P", "W", "O", "N", "\r">>, <<"M", "U", "O", "N", "\r">>, <<"M", "V", "4", "5", "\r">>, <<"S", "I", "C", "D", "\r">>}

MalformedNext ==
    \/ \E s \in SockIds : OnConnect(s)
    \/ \E data \in MalformedData \cup WellFormedData : OnData(data)

MalformedSpec == Init /\ [][MalformedNext]_vars

\* The volume commands of a connection whose receiver reports whole and
\* half-step volumes and a half-step ceiling.
VolumeCommandData ==
    {<<"P", "W", "O", "N", "\r">>, <<"Z", "2", "O", "N", "\r">>, <<"M", "V", "8", "5", "\r">>, <<"M", "V", "3", "5", "5", "\r">>, <<"M", "V", "0", "2", "\r">>, <<"M", "V", "M", "A", "X", " ", "8", "5", "5", "\r">>, <<"M", "V", "M", "A", "X", " ", "6", "0", "\r">>}

VolumeCommandNext ==
    \/ \E s \in SockIds : OnConnect(s)
    \/ \E data \in VolumeCommandData : OnData(data)
    \/ \E delta \in Deltas, zone \in 0..1 : ChangeVolume(delta, zone)
    \/ \E value \in AbsoluteArgs, zone \in 0..1 : ChangeVolumeAbsolute(value, zone)

VolumeCommandSpec == Init /\ [][VolumeCommandNext]_vars

\* The receiver sends back, as a status line, the line the last command
\* wrote.
Echo ==
    /\ call.ret
    /\ Len(wrote) = 1
    /\ OnData(wrote[1])

\* The commands of both zones, each followed or not by its line coming back.
RoundTripSources == {<<"C", "D">>, <<"O", "N">>}
RoundTripVolumes == {5, 45}

RoundTripNext ==
    \/ \E s \in SockIds : OnConnect(s)
    \/ \E data \in {<<"P", "W", "O", "N", "\r">>, <<"Z", "2", "O", "N", "\r">>} : OnData(data)
    \/ Echo
    \/ \E value \in Toggles, zone \in 0..1 : SetPower(value, zone)
    \/ \E value \in Toggles, zone \in 0..1 : SetMute(value, zone)
    \/ \E value \in RoundTripSources, zone \in 0..1 : SetSource(value, zone)
    \/ \E value \in DynamicVolumeArgs : SetDynamicVolume(value)
    \/ \E value \in RoundTripVolumes, zone \in 0..1 : ChangeVolumeAbsolute(value, zone)

RoundTripSpec == Init /\ [][RoundTripNext]_vars

\* The owner of a connection subscribes, disconnects, connects and
\* subscribes again, while the socket opens and closes.
SubscribeNext ==
    \/ Connect
    \/ Disconnect
    \/ \E s \in SockIds : OnConnect(s)
    \/ \E s \in SockIds : OnClose(s)
    \/ \E listener \in Subscribers : On(listener)

SubscribeSpec == Init /\ [][SubscribeNext]_vars

\* searchForReceivers is called with and without its arguments; the plugin
\* calls it with (1, 1), (1, 2) and (3, 3).
CountArgs == {UndefinedArg, 1}
MaxWaitArgs == {UndefinedArg, 1, 2}

SearchArgsNext ==
    \/ ListenBind
    \/ \E cached \in SUBSET UUIDs : ListenDone(cached)
    \/ \E c \in Callers, count \in CountArgs, maxWait \in MaxWaitArgs :
          Search(c, count, maxWait)
    \/ \E c \in Callers : RoundTimer(c)
    \/ \E c \in Callers : Returned(c)

SearchArgsSpec == Init /\ [][SearchArgsNext]_vars

\* The node-ssdp tracker: the receivers answer, from either address, again and
\* again while time passes, among responses without a usable USN.
SsdpUSNs == {USN(u) : u \in UUIDs} \cup {UndefinedText, <<"u", "r", "n", ":", "x">>}

SsdpNext ==
    \/ \E usn \in SsdpUSNs, address \in Addresses : SsdpOnResponse(usn, address)
    \/ SsdpImmediate
    \/ \E u \in UUIDs : expireFromCache(u)
    \/ SsdpTick

SsdpSpec == Init /\ [][SsdpNext]_vars

-----------------------------------------------------------------------------
(* The claims.                                                              *)

\* C1 (as claimed): a close that finds this.#telnet set and fewer than 10
\* consecutive attempts schedules one more attempt and counts it;
\* reconnectCount never exceeds 10; a close that finds reconnectCount at 10
\* schedules nothing, and statusMsg is then the message of the last socket
\* error.
C1_ReconnectCap ==
    /\ reconnectCount <= ReconnectLimit
    /\ (turn.kind = "onClose" /\ turn.telnet # Undefined /\ turn.count < ReconnectLimit)
          => (timers = turn.timers + 1 /\ reconnectCount = turn.count + 1)
    /\ (turn.kind = "onClose" /\ turn.count = ReconnectLimit)
          => /\ timers = turn.timers
             /\ reconnectCount = ReconnectLimit
             /\ lastError # "none"
             /\ statusMsg = OnErrorMsg(lastError)

\* C2 (as claimed): once the owner has called disconnect(), and until it calls
\* connect() again, no reconnect timer opens a socket.
C2_NoSocketAfterDisconnect == callerClosed => turn.kind # "timer"

\* C3: at most one scan loop runs at a time, and only while isScanning; a call
\* that finds a scan in flight sends nothing and waits; the rounds sent are
\* those of the scans started, all of them once no scan is in flight; the
\* callers of one scan, the one that started it and those that waited for it,
\* return the same list.
C3_SingleFlight ==
    /\ Cardinality(Looping) <= 1
    /\ Looping # {} => isScanning
    /\ tturn.kind = "join"
          => (tturn.scanning /\ sends = tturn.sends /\ pc[tturn.caller] = "waiting")
    /\ sends <= owed
    /\ Looping = {} => sends = owed
    /\ \A c, d \in Callers :
          (pc[c] = "returned" /\ pc[d] = "returned" /\ joined[c].scan = joined[d].scan)
             => result[c] = result[d]

\* C3, witness: a scan of two rounds has ended, and its starter and a caller
\* that waited for it hold the same list, which is not empty.
C3_Witness ==
    \E c, d \in Callers :
        /\ pc[c] = "returned" /\ pc[d] = "returned"
        /\ joined[c].scan = joined[d].scan
        /\ joined[c].starter /\ ~joined[d].starter
        /\ rounds[c] = 2 /\ sent[c] = 2
        /\ result[d] # {}

\* C4: a scan that has returned has sent exactly the rounds it was asked for;
\* the turn that ends a scan clears isScanning and releases every caller that
\* waited; a caller waits only while isScanning; and every caller that waits
\* or scans returns at last.
C4_Safe ==
    /\ \A c \in Callers : (pc[c] = "returned" /\ joined[c].starter) => sent[c] = rounds[c]
    /\ \A c \in Callers : pc[c] = "looping" => sent[c] = round[c] /\ round[c] <= rounds[c]
    /\ tturn.kind = "finish"
          => (~isScanning /\ Waiting = {} /\ \A c \in tturn.waiting : pc[c] = "returned")
    /\ Waiting # {} => isScanning

C5_AlwaysRetries ==
    (turn.kind = "onClose" /\ turn.state \in {"open", "errored"}
        /\ ~callerClosed /\ ~hostNotFound)
       => timers = turn.timers + 1

\* C5 (as amended): a close that finds the connection holding a socket and
\* fewer than 10 consecutive attempts schedules another attempt, and the
\* attempt is made; a close that finds 10 schedules none; a socket that opens
\* resets reconnectCount to 0, sets the Connected message and writes the status
\* queries to the socket of the connection.
C5_Safe ==
    /\ (turn.kind = "onClose" /\ turn.telnet # Undefined /\ turn.count < ReconnectLimit)
          => timers = turn.timers + 1
    /\ (turn.kind = "onClose" /\ turn.count >= ReconnectLimit) => timers = turn.timers
    /\ (~callerClosed /\ ~hostNotFound) => telnet # Undefined
    /\ turn.kind = "onConnect"
          => /\ reconnectCount = 0
             /\ statusMsg = MsgConnected
             /\ emitted = << <<"connected", 0>> >>
             /\ telnet # Undefined => wrote = StatusQueries

C5_SelfHealing ==
    /\ []C5_Safe
    /\ (turn.kind = "onClose" /\ timers > turn.timers) ~> (turn.kind = "timer")

\* C5, witness: a socket has opened after failed attempts, and the status
\* queries were written again.
C5_Witness ==
    /\ turn.kind = "onConnect"
    /\ turn.count > 1
    /\ reconnectCount = 0
    /\ wrote = StatusQueries
    /\ ~callerClosed /\ ~hostNotFound

\* C6 (as claimed): the error ENOTFOUND sets the host-not-found message and
\* emits 'status'; from then on, until the owner calls connect(), no close
\* schedules a reconnect or counts an attempt.
C6_HostNotFoundIsTerminal ==
    /\ (turn.kind = "onError" /\ turn.code = "ENOTFOUND")
          => (statusMsg = MsgHostNotFound /\ emitted = << <<"status", 0>> >>)
    /\ (hostNotFound /\ turn.kind = "onClose")
          => (timers = turn.timers /\ reconnectCount = turn.count)

\* C7 (as claimed): at most one socket of the connection is connecting or open.
C7_OneLiveSocket == Cardinality(Usable) <= 1

\* C8 (as claimed): a command method called while the socket of the
\* connection is not open returns false and writes nothing.
C8_CommandsNeedOpenSocket ==
    (call.op # "none" /\ call.sockState # "open") => (~call.ret /\ wrote = <<>>)

\* C9 (as claimed): a toggle of power or mute is refused while the receiver
\* has not reported that field of the zone; a toggle that is sent sends the
\* opposite of the state held.
C9_ToggleNeedsKnownState ==
    (call.op \in {"setPower", "setMute"} /\ call.value = "undefined")
       => /\ ~call.known => (~call.ret /\ wrote = <<>>)
          /\ call.ret =>
               LET held == IF call.op = "setPower" THEN call.power ELSE call.muted
                   on == IF call.op = "setPower"
                         THEN IF call.zone = 0 THEN <<"P", "W", "O", "N", "\r">>
                                               ELSE <<"Z", "2", "O", "N", "\r">>
                         ELSE IF call.zone = 0 THEN <<"M", "U", "O", "N", "\r">>
                                               ELSE <<"Z", "2", "M", "U", "O", "N", "\r">>
               IN  (wrote = <<on>>) <=> ~held

\* The volume a call of changeVolume started from is a number of [0, maxVolume].
StartInRange ==
    /\ call.volume # NaN /\ call.maxVolume # NaN
    /\ 0 <= call.volume /\ call.volume <= call.maxVolume

\* C10 (as claimed): from a reported volume in [0, maxVolume], the volume a
\* call of changeVolume asks for is in [0, maxVolume]: the absolute target it
\* writes, or for UP and DOWN a volume above or below the one it started from.
C10_RequestInRange ==
    (call.op = "changeVolume" /\ call.ret /\ call.known /\ StartInRange)
       => /\ call.delta = 1 => call.volume < call.maxVolume
          /\ call.delta = -1 => call.volume > 0
          /\ call.delta \notin {1, -1} => (0 <= call.target /\ call.target <= call.maxVolume)

\* C10 (as amended): from a volume in [0, maxVolume], for every delta other
\* than +1 and -1 the volume changeVolume writes is the clamped target, a
\* number of [0, maxVolume]; for +1 and -1 it writes UP or DOWN whatever the
\* volume is.
C10_TargetInRange ==
    (call.op = "changeVolume" /\ call.ret /\ StartInRange)
       => LET prefix == IF call.zone = 0 THEN <<"M", "V">> ELSE <<"Z", "2">>
          IN  /\ call.delta = 1 => wrote = <<prefix \o <<"U", "P", "\r">> >>
              /\ call.delta = -1 => wrote = <<prefix \o <<"D", "O", "W", "N", "\r">> >>
              /\ call.delta \notin {1, -1}
                    => /\ 0 <= call.target /\ call.target <= call.maxVolume
                       /\ wrote = <<prefix \o padStart2(toString(call.target)) \o CR>>

\* C10, witness: a call of changeVolume that would pass the maximum has
\* written the maximum.
C10_Witness ==
    /\ call.op = "changeVolume" /\ call.ret /\ call.known /\ StartInRange
    /\ call.delta > 1
    /\ call.volume + call.delta * 10 > call.maxVolume
    /\ call.target = call.maxVolume
    /\ wrote = << <<"M", "V">> \o padStart2(toString(call.maxVolume)) \o CR >>

\* C11 (as claimed): changeVolumeAbsolute returns false and writes nothing
\* when the power of the zone is unknown or false, and in every other case
\* returns true and writes the value as it is, inside [0, maxVolume] or not.
C11_AbsoluteAcceptedOtherwise ==
    call.op = "changeVolumeAbsolute"
       => LET prefix == IF call.zone = 0 THEN <<"M", "V">> ELSE <<"Z", "2">>
          IN  IF ~call.known \/ ~call.power
              THEN ~call.ret /\ wrote = <<>>
              ELSE call.ret /\ wrote = <<prefix \o padStart2(toString(call.delta * 10)) \o CR>>

\* C11 (as amended): changeVolumeAbsolute returns false and writes nothing
\* when the power of the zone is unknown or false or the connection holds no
\* socket (after disconnect()); in every other case it returns true and writes
\* the value as it is, inside [0, maxVolume] or not.
C11_AbsoluteUnclamped ==
    call.op = "changeVolumeAbsolute"
       => LET prefix == IF call.zone = 0 THEN <<"M", "V">> ELSE <<"Z", "2">>
          IN  IF ~call.known \/ ~call.power \/ call.sockState = "undefined"
              THEN ~call.ret /\ wrote = <<>>
              ELSE /\ call.ret
                   /\ call.target = call.delta * 10
                   /\ wrote = <<prefix \o padStart2(toString(call.delta * 10)) \o CR>>

\* C11, witness: a value above maxVolume was written as it is.
C11_Witness ==
    /\ call.op = "changeVolumeAbsolute" /\ call.ret /\ call.zone = 0
    /\ call.delta = 99 /\ call.maxVolume = 600
    /\ wrote = << <<"M", "V", "9", "9", "\r">> >>

\* The power lines, with the zone and the value each one reports.
PowerLines ==
    {[data |-> <<"P", "W", "O", "N", "\r">>, zone |-> 0, value |-> TRUE],
     [data |-> <<"P", "W", "S", "T", "A", "N", "D", "B", "Y", "\r">>, zone |-> 0, value |-> FALSE],
     [data |-> <<"Z", "2", "O", "N", "\r">>, zone |-> 1, value |-> TRUE]}

\* C12: a power line emits powerChanged, once and for its zone, if and only
\* if the value it reports differs from the power held for the zone, and the
\* zone holds the reported value after it; two identical power lines in a row
\* emit one event when the first changes the power and none when it does not.
C12_PowerEventIffChanged ==
    turn.kind = "onData"
       => /\ \A l \in PowerLines :
                turn.data = l.data
                   => /\ zones[l.zone].power = l.value
                      /\ emitted = IF turn.before[l.zone].power = l.value
                                   THEN <<>>
                                   ELSE << <<"powerChanged", l.zone>> >>
          /\ turn.data = <<"P", "W", "O", "N", "\r", "P", "W", "O", "N", "\r">>
                => /\ zones[0].power
                   /\ emitted = IF turn.before[0].power THEN <<>>
                                                        ELSE << <<"powerChanged", 0>> >>

\* C12, witness: PWON twice in one data event, to a zone that was off, has
\* emitted one event.
C12_Witness ==
    /\ turn.kind = "onData"
    /\ turn.data = <<"P", "W", "O", "N", "\r", "P", "W", "O", "N", "\r">>
    /\ ~turn.before[0].power
    /\ emitted = << <<"powerChanged", 0>> >>

\* The lines of the other kinds, with the zone, the field and the value each
\* one reports, and the event of the kind.
MuteLines ==
    {[data |-> <<"M", "U", "O", "N", "\r">>, zone |-> 0, value |-> TRUE],
     [data |-> <<"M", "U", "O", "F", "F", "\r">>, zone |-> 0, value |-> FALSE],
     [data |-> <<"Z", "2", "M", "U", "O", "N", "\r">>, zone |-> 1, value |-> TRUE]}
VolumeLines ==
    {[data |-> <<"M", "V", "4", "5", "\r">>, zone |-> 0, value |-> 450],
     [data |-> <<"M", "V", "3", "5", "5", "\r">>, zone |-> 0, value |-> 355]}

\* C13 (as claimed): a status line of any kind emits its event if and only
\* if the value it reports differs from the value held for the zone.
C13_NoEventWhenIdentical ==
    turn.kind = "onData"
       => /\ \A l \in PowerLines :
                turn.data = l.data
                   => emitted = IF turn.before[l.zone].power = l.value
                                THEN <<>> ELSE << <<"powerChanged", l.zone>> >>
          /\ \A l \in MuteLines :
                turn.data = l.data
                   => emitted = IF turn.before[l.zone].muted = l.value
                                THEN <<>> ELSE << <<"muteChanged", l.zone>> >>
          /\ \A l \in VolumeLines :
                turn.data = l.data
                   => emitted = IF turn.before[l.zone].volume = l.value
                                THEN <<>> ELSE << <<"volumeChanged", l.zone>> >>
          /\ turn.data = <<"S", "I", "C", "D", "\r">>
                => emitted = IF turn.before[0].source = <<"C", "D">>
                             THEN <<>> ELSE << <<"sourceChanged", 0>> >>
          /\ turn.data = <<"P", "S", "D", "Y", "N", "V", "O", "L", " ", "H", "E", "V", "\r">>
                => emitted = IF turn.before[0].dynamicVolume = <<"H", "E", "V">>
                             THEN <<>> ELSE << <<"dynamicVolumeChanged", 0>> >>

\* C13 (as amended): only a power line is silent when it reports the value
\* held; a volume line, a mute line, a source line and a valid dynamic volume
\* line emit their event every time, whether the value changes or not, and the
\* MAX sub-form and an invalid dynamic volume emit nothing.
C13_OnlyPowerIsSuppressed ==
    turn.kind = "onData"
       => /\ \A l \in PowerLines :
                turn.data = l.data
                   => emitted = IF turn.before[l.zone].power = l.value
                                THEN <<>> ELSE << <<"powerChanged", l.zone>> >>
          /\ \A l \in MuteLines :
                turn.data = l.data
                   => /\ emitted = << <<"muteChanged", l.zone>> >>
                      /\ zones[l.zone].muted = l.value
          /\ \A l \in VolumeLines :
                turn.data = l.data
                   => /\ emitted = << <<"volumeChanged", l.zone>> >>
                      /\ zones[l.zone].volume = l.value
          /\ turn.data = <<"S", "I", "C", "D", "\r">>
                => /\ emitted = << <<"sourceChanged", 0>> >>
                   /\ zones[0].source = <<"C", "D">>
          /\ turn.data = <<"P", "S", "D", "Y", "N", "V", "O", "L", " ", "H", "E", "V", "\r">>
                => /\ emitted = << <<"dynamicVolumeChanged", 0>> >>
                   /\ zones[0].dynamicVolume = <<"H", "E", "V">>
          /\ turn.data \in {<<"M", "V", "M", "A", "X", " ", "8", "5", "5", "\r">>, <<"P", "S", "D", "Y", "N", "V", "O", "L", " ", "X", "X", "\r">>} => emitted = <<>>

\* C13, witness: MUON to a zone already muted has emitted muteChanged.
C13_Witness ==
    /\ turn.kind = "onData"
    /\ turn.data = <<"M", "U", "O", "N", "\r">>
    /\ turn.before[0].muted /\ zones[0].muted
    /\ emitted = << <<"muteChanged", 0>> >>

\* C14: the lines of one data event are applied in the order they arrive, and
\* the events are emitted in that order: PWON, MV45, MUOFF leave the main zone
\* on, at volume 45 and not muted, with powerChanged (if the zone was off),
\* volumeChanged and muteChanged emitted in this order; MUON, MV45 leave it not
\* muted, the volume line coming last.
C14_ArrivalOrder ==
    turn.kind = "onData"
       => /\ turn.data = <<"P", "W", "O", "N", "\r", "M", "V", "4", "5", "\r", "M", "U", "O", "F", "F", "\r">>
                => /\ zones[0].power /\ zones[0].volume = 450 /\ ~zones[0].muted
                   /\ emitted = (IF turn.before[0].power THEN <<>>
                                  ELSE << <<"powerChanged", 0>> >>)
                                 \o << <<"volumeChanged", 0>>, <<"muteChanged", 0>> >>
          /\ turn.data = <<"M", "U", "O", "N", "\r", "M", "V", "4", "5", "\r">>
                => /\ ~zones[0].muted /\ zones[0].volume = 450
                   /\ emitted = << <<"muteChanged", 0>>, <<"volumeChanged", 0>> >>

\* C14, witness: the three lines on a fresh connection have emitted the three
\* events.
C14_Witness ==
    /\ turn.kind = "onData"
    /\ turn.data = <<"P", "W", "O", "N", "\r", "M", "V", "4", "5", "\r", "M", "U", "O", "F", "F", "\r">>
    /\ turn.before = InitialZones
    /\ zones[0].power /\ zones[0].volume = 450 /\ ~zones[0].muted
    /\ emitted = << <<"powerChanged", 0>>, <<"volumeChanged", 0>>, <<"muteChanged", 0>> >>

\* The digit a character stands for.
DigitOf(ch) == CHOOSE d \in 0..9 : Digit[d + 1] = ch

\* C15: MV and two digits sets the volume of the main zone to the number;
\* MV and three digits sets it to the number divided by 10.  (Volumes are in
\* tenths: 35 is 350 and 35.5 is 355.)
C15_VolumeDigits ==
    turn.kind = "onData"
       => /\ \A a, b \in VolumeDigits :
                turn.data = <<"M", "V", a, b, "\r">>
                   => zones[0].volume = (10 * DigitOf(a) + DigitOf(b)) * 10
          /\ \A a, b, c \in VolumeDigits :
                turn.data = <<"M", "V", a, b, c, "\r">>
                   => zones[0].volume = 100 * DigitOf(a) + 10 * DigitOf(b) + DigitOf(c)

\* C15, witness: MV355 has set the volume to 35.5, from another volume.
C15_Witness ==
    /\ turn.kind = "onData"
    /\ turn.data = <<"M", "V", "3", "5", "5", "\r">>
    /\ turn.before[0].volume = 350
    /\ zones[0].volume = 355

\* C16: MVMAX, a space and two or three digits sets maxVolume of the main
\* zone, by the rule of the volume line, changes no other field of a zone
\* and emits nothing.
C16_MaxVolumeOnly ==
    turn.kind = "onData"
       => /\ \A a, b \in MaxVolumeDigits :
                turn.data = <<"M", "V", "M", "A", "X", " ", a, b, "\r">>
                   => /\ zones = [turn.before EXCEPT
                                     ![0].maxVolume = (10 * DigitOf(a) + DigitOf(b)) * 10]
                      /\ emitted = <<>>
          /\ \A a, b, c \in MaxVolumeDigits :
                turn.data = <<"M", "V", "M", "A", "X", " ", a, b, c, "\r">>
                   => /\ zones = [turn.before EXCEPT
                                     ![0].maxVolume = 100 * DigitOf(a) + 10 * DigitOf(b) + DigitOf(c)]
                      /\ emitted = <<>>

\* C16, witness: MVMAX 855 has set maxVolume to 85.5 in a zone that is muted
\* at volume 45, and left both.
C16_Witness ==
    /\ turn.kind = "onData"
    /\ turn.data = <<"M", "V", "M", "A", "X", " ", "8", "5", "5", "\r">>
    /\ turn.before[0].maxVolume = 850 /\ zones[0].maxVolume = 855
    /\ turn.before[0].muted /\ zones[0].muted
    /\ zones[0].volume = 450

\* C17: a command that returns true has written one line, ended by CR, with
\* the prefix of its zone: SI or Z2 before a source, PWON / PWSTANDBY or
\* Z2ON / Z2OFF, MUON / MUOFF or Z2MUON / Z2MUOFF, MV or Z2 before a volume.
C17_ZonePrefix ==
    (call.op \in {"setSource", "setPower", "setMute", "changeVolume", "changeVolumeAbsolute"}
        /\ call.ret)
       => LET main == call.zone = 0
              on == IF call.value = "undefined"
                    THEN (IF call.op = "setPower" THEN ~call.power ELSE ~call.muted)
                    ELSE call.value = "true"
              line ==
                 CASE call.op = "setSource" ->
                         (IF main THEN <<"S", "I">> ELSE <<"Z", "2">>) \o call.text
                   [] call.op = "setPower" ->
                         IF main THEN (IF on THEN <<"P", "W", "O", "N">> ELSE <<"P", "W", "S", "T", "A", "N", "D", "B", "Y">>)
                                 ELSE (IF on THEN <<"Z", "2", "O", "N">> ELSE <<"Z", "2", "O", "F", "F">>)
                   [] call.op = "setMute" ->
                         IF main THEN (IF on THEN <<"M", "U", "O", "N">> ELSE <<"M", "U", "O", "F", "F">>)
                                 ELSE (IF on THEN <<"Z", "2", "M", "U", "O", "N">> ELSE <<"Z", "2", "M", "U", "O", "F", "F">>)
                   [] OTHER ->
                         (IF main THEN <<"M", "V">> ELSE <<"Z", "2">>)
                            \o (IF call.op = "changeVolume" /\ call.delta = 1 THEN <<"U", "P">>
                                 ELSE IF call.op = "changeVolume" /\ call.delta = -1 THEN <<"D", "O", "W", "N">>
                                 ELSE padStart2(toString(call.target)))
          IN  /\ wrote = <<line \o <<"\r">> >>
              /\ \A i \in 1..Len(line) : line[i] # "\r"

\* C17, witness: setSource("CD", 1) has written Z2CD.
C17_Witness ==
    /\ call.op = "setSource" /\ call.ret
    /\ call.zone = 1 /\ call.text = <<"C", "D">>
    /\ wrote = << <<"Z", "2", "C", "D", "\r">> >>

\* C18 (as claimed): the data handler never throws, and a line whose command
\* is none of the recognized ones changes no field of a zone and emits nothing.
C18_DecodingNeverFails ==
    turn.kind = "onData"
       => /\ ~turn.threw
          /\ turn.data \in {<<"X", "X", "1", "2", "\r">>, <<"P", "\r">>} => (zones = turn.before /\ emitted = <<>>)

\* The first place from which a text reads as another, 0 if there is none.
FirstAt(text, part) ==
    LET at == {i \in 1..(Len(text) - Len(part) + 1) :
                  SubSeq(text, i, i + Len(part) - 1) = part}
    IN  IF at = {} THEN 0 ELSE CHOOSE i \in at : \A j \in at : i <= j

\* What follows the first "uuid:" of a USN, and the part of it before its
\* first "::".
AfterMarker(usn) == SubSeq(usn, FirstAt(usn, <<"u", "u", "i", "d", ":">>) + 5, Len(usn))
HasMarker(usn) == FirstAt(usn, <<"u", "u", "i", "d", ":">>) > 0 /\ FirstAt(AfterMarker(usn), <<":", ":">>) > 0
Between(usn) == SubSeq(AfterMarker(usn), 1, FirstAt(AfterMarker(usn), <<":", ":">>) - 1)

\* The USN values of the responses, and the responses that carry one in a
\* header line "USN: value".
SentUSNs == {USN(u) : u \in UUIDs} \cup OddUSNs
Carries(message, usn) ==
    \/ message = Datagram(HeaderLine(<<"U", "S", "N">>, usn))
    \/ \E u \in UUIDs :
          message = Datagram(HeaderLine(<<"U", "S", "N">>, usn)
                             \o HeaderLine(<<"L", "O", "C", "A", "T", "I", "O", "N">>, DescriptionURL(u)))

\* The last response was filed in the cache under an identity, with the
\* address of its sender.
FiledAs(identity) ==
    /\ tturn.uuid = identity
    /\ identity \in receiverList
    /\ receivers[identity].currentIP = tturn.address

\* C19, as the specification has it: a response whose USN has a "uuid:" with a
\* "::" after it is filed under the text between the two.
C19_IdentityBetweenMarkers ==
    tturn.kind = "response" =>
        \A usn \in SentUSNs :
            (Carries(tturn.message, usn) /\ HasMarker(usn)) => FiledAs(Between(usn))

\* A USN that begins with "uuid:", then an identity that is not empty and
\* has no colon, then "::".
BeginsWithIdentity(usn) ==
    /\ HasMarker(usn)
    /\ FirstAt(usn, <<"u", "u", "i", "d", ":">>) = 1
    /\ Between(usn) # <<>>
    /\ \A i \in 1..Len(Between(usn)) : Between(usn)[i] # ":"

\* C19: a response with a header line "USN: value", whose value begins with
\* "uuid:", an identity that is not empty and has no colon, and "::", is filed
\* in the cache under that identity.
C19_IdentityOfLeadingMarker ==
    tturn.kind = "response" =>
        \A usn \in SentUSNs :
            (Carries(tturn.message, usn) /\ BeginsWithIdentity(usn)) => FiledAs(Between(usn))

C19_Witness ==
    /\ tturn.kind = "response"
    /\ tturn.message = Sighting(<<"A", "B", "1", "2">>, DescriptionURL(<<"A", "B", "1", "2">>))
    /\ BeginsWithIdentity(USN(<<"A", "B", "1", "2">>))
    /\ FiledAs(<<"A", "B", "1", "2">>)

\* The datagrams without a usable identity: without a line that begins with
\* "USN: ", or with a USN that has no "uuid:" before its first "::", or
\* nothing after it.
Unusable ==
    {Datagram(<<>>),
     Datagram(HeaderLine(<<"u", "s", "n">>, USN(<<"A", "B", "1", "2">>))),
     Datagram(<<"U", "S", "N", ":">> \o USN(<<"A", "B", "1", "2">>) \o <<"\r", "\n">>),
     Datagram(HeaderLine(<<"U", "S", "N">>, <<"u", "r", "n", ":", "x">>)),
     Datagram(HeaderLine(<<"U", "S", "N">>, <<"u", "u", "i", "d", ":", ":", ":", "u", "r", "n", ":", "x">>)),
     Datagram(HeaderLine(<<"U", "S", "N">>, <<"u", "u", "i", "d", ":">>)),
     Datagram(HeaderLine(<<"U", "S", "N">>, <<"u", "r", "n", ":", ":", "u", "u", "i", "d", ":", "A", "B", "1", "2", ":", ":", "x">>))}

C21_OneEntryPerIdentity ==
    /\ [](DOMAIN receivers = receiverList)
    /\ [][\A u \in UUIDs :
            (/\ tturn'.kind = "response"
             /\ Carries(tturn'.message, USN(u))
             /\ u \in receiverList)
            => /\ receiverList' = receiverList
               /\ receivers'[u].currentIP = tturn'.address
               /\ receivers'[u].lastSeen = clock'
               /\ \A v \in receiverList \ {u} : receivers'[v] = receivers[v]]_vars

\* C21, witness: AB12, seen before at time 0, is sighted at time 1 from the
\* other address, while AB11 is in the cache.
C21_Witness ==
    /\ tturn.kind = "response" /\ ~tturn.isNew
    /\ Carries(tturn.message, USN(<<"A", "B", "1", "2">>))
    /\ tturn.address = AddressOf(<<"A", "B", "1", "1">>)
    /\ clock = 1
    /\ receiverList = UUIDs
    /\ receivers[<<"A", "B", "1", "2">>].currentIP = AddressOf(<<"A", "B", "1", "1">>)
    /\ receivers[<<"A", "B", "1", "2">>].lastSeen = 1
    /\ receivers[<<"A", "B", "1", "1">>].lastSeen = 0

\* An identity has an entry with a friendly name.
Named(u) == u \in receiverList /\ receivers[u].name # UndefinedText

\* C22 (as claimed): a response starts a name fetch only if it has a LOCATION
\* header and its identity has no friendly name in the cache; a repeat
\* sighting of an identity that has one starts no fetch and leaves the name.
C22_FetchOnlyWithoutName ==
    [][\A u \in UUIDs :
          (tturn'.kind = "response" /\ Carries(tturn'.message, USN(u)))
          => /\ Len(fetching') > Len(fetching)
                  => (tturn'.message = Sighting(u, DescriptionURL(u)) /\ ~Named(u))
             /\ Named(u)
                  => (Len(fetching') <= Len(fetching)
                      /\ receivers'[u].name = receivers[u].name)]_vars

\* C23 (as claimed): a name fetch that fails, by a status that is not OK, a
\* document without friendlyName or a rejected request, lets no error escape;
\* the entry is kept without a name and without its descriptionURL, 'updated'
\* is emitted if the identity was new and the persist is scheduled.
C23_FetchFailureSwallowed ==
    (tturn.kind = "fetched" /\ tturn.outcome \in {"notOk", "noName", "rejected"})
    => /\ ~tturn.unhandled
       /\ tturn.uuid \in receiverList
       /\ receivers[tturn.uuid].name = UndefinedText
       /\ receivers[tturn.uuid].descriptionURL = UndefinedText
       /\ tturn.updated = (IF tturn.isNew THEN 1 ELSE 0)
       /\ persistTimers = 1

\* The last turn has changed the cache: a response was filed, or a fetch has
\* given a name.
Mutated ==
    \/ tturn.kind = "response" /\ tturn.uuid # UndefinedText
    \/ tturn.kind = "fetched" /\ tturn.outcome = "named"

\* C24 (as claimed): at most one persist timer is pending, and after every
\* change of the cache the whole cache, as it then is, is written to the
\* settings.
C24_EveryMutationPersisted ==
    /\ [](persistTimers <= 1)
    /\ Mutated ~> (tturn.kind = "persisted" /\ saved = receivers)

\* C25 (as claimed): listen() loads the persisted cache before it binds the
\* socket and before any datagram is processed, so that the load replaces no
\* entry learned from the network.
C25_CacheBeforeNetwork ==
    [][/\ tturn'.kind \in {"bind", "response"} => listenPc = "done"
       /\ tturn'.kind = "listened"
             => \A u \in receiverList :
                   u \in receiverList' /\ receivers'[u] = receivers[u]]_vars

\* The queries among the texts written by the last turn that ask for a field
\* of a zone: the code of the field after the prefix of the zone, and "?".
QueriesFor(zone, code) ==
    LET start == (IF zone = 1 THEN <<"Z", "2">> ELSE <<>>) \o code
    IN  {i \in 1..Len(wrote) :
            /\ startsWith(wrote[i], start)
            /\ Len(wrote[i]) >= 2
            /\ SubSeq(wrote[i], Len(wrote[i]) - 1, Len(wrote[i])) = <<"?", "\r">>}

\* C26 (as claimed): when a socket opens, reconnectCount becomes 0, statusMsg
\* the connected message, 'connected' is emitted and one query is written for
\* the power, the volume, the mute and the source of each zone and for the
\* dynamic volume of the main zone.
C26_FullStatusRefresh ==
    turn.kind = "onConnect"
    => /\ reconnectCount = 0
       /\ statusMsg = MsgConnected
       /\ emitted = << <<"connected", 0>> >>
       /\ \A zone \in 0..1 : \A code \in {<<"P", "W">>, <<"M", "V">>, <<"M", "U">>, <<"S", "I">>} :
             Cardinality(QueriesFor(zone, code)) = 1
       /\ Cardinality(QueriesFor(0, <<"P", "S", "D", "Y", "N", "V", "O", "L">>)) = 1

\* The numeric volume lines, with the zone each one reports, and the lines
\* that are neither volume lines nor mute lines.
NumericVolumeLines ==
    {[data |-> <<"M", "V", "4", "5", "\r">>, zone |-> 0],
     [data |-> <<"Z", "2", "4", "0", "\r">>, zone |-> 1],
     [data |-> <<"Z", "2", "0", "0", "\r">>, zone |-> 1]}
NeitherVolumeNorMute ==
    {<<"M", "V", "M", "A", "X", " ", "8", "5", "5", "\r">>, <<"S", "I", "C", "D", "\r">>, <<"P", "S", "D", "Y", "N", "V", "O", "L", " ", "H", "E", "V", "\r">>, <<"P", "S", "D", "Y", "N", "V", "O", "L", " ", "X", "X", "\r">>,
     <<"P", "S", "D", "Y", "N", "V", "O", "L", "\r">>, <<"Z", "2", "O", "N", "\r">>, <<"Z", "2", "C", "D", "\r">>, <<"Z", "2", "D", "Y", "N", "V", "O", "L", " ", "H", "E", "V", "\r">>}

\* C27 (as claimed): after a numeric volume line the muted flag of its zone
\* is false; the MAX sub-form and the lines of other kinds leave the muted
\* flags as they were.
C27_VolumeClearsMute ==
    turn.kind = "onData"
    => /\ \A l \in NumericVolumeLines :
             turn.data = l.data => zones[l.zone].muted = FALSE
       /\ turn.data \in NeitherVolumeNorMute
             => \A zone \in 0..1 : zones[zone].muted = turn.before[zone].muted

\* C28: a line that starts with Z2 leaves the status of the main zone as it
\* was and a line that does not leaves the status of zone 2 as it was; every
\* event of a line carries the zone of the line, and that is the only zone
\* whose status the line has changed.
C28_ZoneRouting ==
    (turn.kind = "onData" /\ turn.data \in ZoneData)
    => LET zone == IF SubSeq(turn.data, 1, 2) = <<"Z", "2">> THEN 1 ELSE 0
       IN  /\ zones[1 - zone] = turn.before[1 - zone]
           /\ \A i \in 1..Len(emitted) : emitted[i][2] = zone

\* C28, witness: Z2MUON has muted zone 2, with an event for zone 2, and the
\* main zone, which holds a volume, a source and a dynamic volume of its own,
\* is as it was.
C28_Witness ==
    /\ turn.kind = "onData"
    /\ turn.data = <<"Z", "2", "M", "U", "O", "N", "\r">>
    /\ ~turn.before[1].muted /\ zones[1].muted
    /\ emitted = << <<"muteChanged", 1>> >>
    /\ zones[0].volume = 450 /\ zones[0].source = <<"C", "D">>
    /\ zones[0].dynamicVolume = <<"H", "E", "V">>
    /\ zones[0] = turn.before[0]

\* C29: the dynamic volume of the main zone is OFF, LIT, MED or HEV; a
\* PSDYNVOL line with one of the four sets it and emits dynamicVolumeChanged,
\* one with another value or none leaves it and emits nothing; zone 2 never
\* has a dynamic volume.
C29_DynamicVolumeValues ==
    /\ zones[0].dynamicVolume \in {<<"O", "F", "F">>, <<"L", "I", "T">>, <<"M", "E", "D">>, <<"H", "E", "V">>}
    /\ zones[1].dynamicVolume = UndefinedText
    /\ turn.kind = "onData"
       => /\ turn.data = <<"P", "S", "D", "Y", "N", "V", "O", "L", " ", "H", "E", "V", "\r">>
             => /\ zones[0].dynamicVolume = <<"H", "E", "V">>
                /\ emitted = << <<"dynamicVolumeChanged", 0>> >>
          /\ turn.data \in {<<"P", "S", "D", "Y", "N", "V", "O", "L", " ", "X", "X", "\r">>, <<"P", "S", "D", "Y", "N", "V", "O", "L", "\r">>, <<"Z", "2", "D", "Y", "N", "V", "O", "L", " ", "H", "E", "V", "\r">>}
             => /\ zones = turn.before
                /\ emitted = <<>>

\* C29, witness: PSDYNVOL XX has arrived after PSDYNVOL HEV, and the dynamic
\* volume is still HEV.
C29_Witness ==
    /\ turn.kind = "onData"
    /\ turn.data = <<"P", "S", "D", "Y", "N", "V", "O", "L", " ", "X", "X", "\r">>
    /\ zones[0].dynamicVolume = <<"H", "E", "V">>
    /\ emitted = <<>>

\* C30 (as claimed): two data events in a row leave the zones, and emit the
\* events, that one data event with the bytes of both would have.
C30_OneStream ==
    [][(turn.kind = "onData" /\ turn'.kind = "onData")
          => LET whole == onDataLines([zones |-> turn.before, emitted |-> <<>>,
                                       reported |-> reported, threw |-> FALSE],
                                      split(turn.data \o turn'.data, "\r"))
             IN  /\ zones' = whole.zones
                 /\ emitted \o emitted' = whole.emitted]_vars

\* C31 (as claimed): Z2 and two digits sets the volume of zone 2 to the
\* number, Z2 and three digits sets it to the number divided by 10, Z200
\* included, and either emits volumeChanged for zone 2.
C31_Zone2VolumeDigits ==
    turn.kind = "onData"
       => /\ \A a, b \in VolumeDigits :
                turn.data = <<"Z", "2", a, b, "\r">>
                   => /\ zones[1].volume = (10 * DigitOf(a) + DigitOf(b)) * 10
                      /\ emitted = << <<"volumeChanged", 1>> >>
          /\ \A a, b, c \in VolumeDigits :
                turn.data = <<"Z", "2", a, b, c, "\r">>
                   => /\ zones[1].volume = 100 * DigitOf(a) + 10 * DigitOf(b) + DigitOf(c)
                      /\ emitted = << <<"volumeChanged", 1>> >>

\* C32 (as claimed): a line with a recognized command and a malformed value
\* leaves every field of every zone as it was and emits nothing.
C32_MalformedIgnored ==
    (turn.kind = "onData" /\ turn.data \in MalformedData)
       => /\ zones = turn.before
          /\ emitted = <<>>

\* The prefix of a volume command for the zone of the last call.
VolumePrefix == IF call.zone = 0 THEN <<"M", "V">> ELSE <<"Z", "2">>

\* C33 (as claimed): changeVolume writes UP for a delta of +1 and DOWN for a
\* delta of -1, and for any other delta the clamped target; every absolute
\* volume written, by changeVolume or by changeVolumeAbsolute, is two
\* decimal digits.
C33_VolumeEncoding ==
    (call.op \in {"changeVolume", "changeVolumeAbsolute"} /\ call.ret)
       => /\ Len(wrote) = 1
          /\ IF call.op = "changeVolume" /\ call.delta = 1
             THEN wrote[1] = VolumePrefix \o <<"U", "P">> \o CR
             ELSE IF call.op = "changeVolume" /\ call.delta = -1
             THEN wrote[1] = VolumePrefix \o <<"D", "O", "W", "N">> \o CR
             ELSE \E a, b \in 0..9 :
                     /\ wrote[1] = VolumePrefix \o <<Digit[a + 1], Digit[b + 1]>> \o CR
                     /\ call.op = "changeVolume"
                           => (10 * a + b) * 10
                                 = ClampedVolume(call.volume, call.maxVolume, call.delta)

\* C34 (as claimed): when the line a command has written comes back as a
\* status line, the field of the command, in the zone of the command, has
\* the value the command asked for: the power, the mute, the source, the
\* dynamic volume of the main zone, the absolute volume.
C34_RoundTrip ==
    [][(call.ret /\ Len(wrote) = 1 /\ turn'.kind = "onData" /\ turn'.data = wrote[1])
          => CASE call.op = "setPower" ->
                     zones'[call.zone].power = Toggled(call.value, call.power)
               [] call.op = "setMute" ->
                     zones'[call.zone].muted = Toggled(call.value, call.muted)
               [] call.op = "setSource" ->
                     zones'[call.zone].source = call.text
               [] call.op = "setDynamicVolume" ->
                     zones'[0].dynamicVolume = call.text
               [] call.op = "changeVolumeAbsolute" ->
                     zones'[call.zone].volume = call.target
               [] OTHER -> TRUE]_vars

\* C35 (as claimed): after a name fetch for an identity has ended with a
\* name, and with no other fetch for the identity in flight, the entry the
\* cache holds for the identity carries the name.
C35_FetchedNameInCache ==
    (/\ tturn.kind = "fetched"
     /\ tturn.outcome = "named"
     /\ tturn.uuid \in receiverList
     /\ \A i \in 1..Len(fetching) : fetching[i].uuid # tturn.uuid)
       => receivers[tturn.uuid].name = FriendlyName

\* C36 (as claimed): the first sighting of an identity is followed by a turn
\* that emits 'updated'.
C36_UpdatedAfterFirstSighting ==
    \A u \in UUIDs :
        (tturn.kind = "response" /\ tturn.isNew /\ tturn.uuid = u) ~> (tturn.updated = 1)

\* C37: until listen() has completed, isScanning is true, no query has been
\* sent and no call of searchForReceivers has returned; the turn in which
\* listen() completes clears the flag and releases every caller that waited,
\* each with the list as listen() leaves it; and isScanning is false only
\* when listen() has completed and no scan loop is running.
C37_ScanningUntilListened ==
    /\ listenPc # "done"
          => /\ isScanning
             /\ sends = 0
             /\ \A c \in Callers : pc[c] \in {"idle", "waiting"}
    /\ (tturn.kind = "join" /\ listenPc # "done")
          => (sends = tturn.sends /\ pc[tturn.caller] = "waiting")
    /\ tturn.kind = "listened"
          => /\ tturn.scanning /\ ~isScanning
             /\ sends = 0
             /\ \A c \in tturn.waiting : pc[c] = "returned" /\ result[c] = receiverList
    /\ ~isScanning => (listenPc = "done" /\ Looping = {})

\* C37, witness: listen() has completed with a list of one receiver while
\* every caller was waiting, and each has returned with that list; no query
\* was sent.
C37_Witness ==
    /\ tturn.kind = "listened"
    /\ tturn.waiting = Callers
    /\ receiverList = {<<"A", "B", "1", "2">>}
    /\ \A c \in Callers : pc[c] = "returned" /\ result[c] = receiverList
    /\ sends = 0

\* C38 (as claimed): over the life of a connection, disconnect() and later
\* subscriptions included, a listener is attached to the event emitter at
\* most once, so that an event is delivered to it at most once.
C38_AttachedAtMostOnce ==
    \A listener \in Subscribers : listeners[listener] <= 1

\* C39 (as claimed): a call without arguments runs 3 rounds, writes an MX of
\* 3 into its query and waits 3000 ms after each round; a call with a
\* maxWait writes it into the query as the MX and waits as many seconds
\* after each round.
C39_DefaultWait ==
    /\ \A c \in Callers :
          (pc[c] = "looping" /\ args[c][1] = UndefinedArg) => rounds[c] = 3
    /\ (tturn.kind \in {"start", "round"} /\ tturn.query # <<>>)
          => LET maxWait == args[tturn.caller][2]
                 seconds == IF maxWait = UndefinedArg THEN 3 ELSE maxWait
             IN  /\ tturn.query = createSSDPMessage(seconds)
                 /\ tturn.wait = seconds * 1000

\* C40 (as claimed): in the node-ssdp tracker an identity has at most one
\* expiry timer, due 180 seconds after its last sighting; an entry is removed
\* when, and only when, 180 seconds have passed since the last sighting of
\* its identity; and a repeat sighting restarts the timer and sets the
\* currentIP of the entry to the address of the sender.
C40_ExpiryAndRefresh ==
    /\ \A u \in UUIDs : Len(cacheTimers[u]) <= 1
    /\ \A u \in DOMAIN cacheDict :
          /\ cacheTimers[u] = <<seenAt[u] + CACHE_TIME>>
          /\ ssdpNow <= seenAt[u] + CACHE_TIME
    /\ sturn.kind = "expired"
          => (sturn.removed /\ ssdpNow = sturn.seenAt + CACHE_TIME)
    /\ (sturn.kind = "response" /\ sturn.repeat)
          => /\ cacheDict[sturn.uuid].cacheTimer = ssdpNow + CACHE_TIME
             /\ cacheDict[sturn.uuid].currentIP = sturn.address

====
